---- MODULE Spec2Model ----
(***************************************************************************)
(* Remote image resolution of the distribution package: Inspect and        *)
(* ListRemoteTags walk the configured registries, and for each registry    *)
(* fetchManifest / getRemoteTagList walk its pull endpoints, building a    *)
(* V1 or V2 fetcher / lister per endpoint and classifying its error.       *)
(***************************************************************************)
EXTENDS Integers, Sequences, FiniteSets, TLC

(* Bounds of the model. *)
MaxRegistries == 2
MaxEndpoints == 2
MaxTags == 3
MaxLayers == 2
MaxErrors == 2

(* registry.APIVersion values an endpoint may carry; 0 is a version that   *)
(* neither newManifestFetcher nor newTagLister knows.                      *)
APIVersion1 == 1
APIVersion2 == 2
Versions == {0, APIVersion1, APIVersion2}

VARIABLES
    op,                     \* entry point called: "Inspect" or "ListRemoteTags"
    scope,                  \* the inputs the behaviour explores, see Scopes
    ref,                    \* the reference handed to the entry point
    RegistryList,           \* registry.RegistryList
    pc,                     \* position of the call
    r,                      \* index of the range loop over RegistryList
    fqr,                    \* reference handed to fetchManifest / getRemoteTagList
    imageInspect,           \* Inspect's imageInspect, ListRemoteTags' tagList
    err,                    \* Inspect's / ListRemoteTags' err
    endpoints,              \* the endpoints ranged over
    looked,                 \* the endpoints as LookupPullEndpoints returned them
    i,                      \* index of the range loop over endpoints
    lastErr,
    discardNoSupportErrors,
    ret,                    \* what Inspect / ListRemoteTags returned
    \* history of the call, read by the properties only
    regListRead,            \* registry.RegistryList has been read
    candidates,             \* per registry resolved or qualified: its name and outcome
    tried,                  \* positions of the endpoints tried in the current resolution
    attempt,                \* the latest endpoint attempt of the current resolution
    lastReal,               \* latest fallback error of it that is no ErrNoSupport
    allFallback,            \* every attempt of it ended with fallback set and an error
    returned,               \* what the current fetchManifest / getRemoteTagList returned
    \* one Fetch or ListTags call followed on its own
    mf,                \* "v1ManifestFetcher", "v2ManifestFetcher", or a lister
    fetchIn,                \* its argument and what its collaborators answer
    fetched,                \* what it returned
    listIn,                 \* a lister's repository and what its collaborators answer
    listed,                 \* what the lister returned
    \* two calls running at once against one registry service
    service,                \* the endpoints the registry service hands to both
    frames,                 \* per call: what it was called with and where it is
    locals                  \* per call: lastErr and discardNoSupportErrors of its loop

mainVars == <<op, scope, ref, RegistryList, pc, r, fqr, imageInspect, err, endpoints, looked,
              i, lastErr, discardNoSupportErrors, ret, regListRead, candidates, tried,
              attempt, lastReal, allFallback, returned>>
fetchVars == <<mf, fetchIn, fetched, listIn, listed>>
concVars == <<service, frames, locals>>
vars == <<mainVars, fetchVars, concVars>>

(***************************************************************************)
(* Values                                                                  *)
(***************************************************************************)

(* error values: type is the dynamic type (registry.ErrNoSupport or any    *)
(* other error), msg says which call raised it, index names the registry   *)
(* and pos the position of the endpoint it was raised for (0: none).       *)
Nil == [type |-> "nil", msg |-> "", index |-> 0, pos |-> 0]
NewError(m, index, pos) == [type |-> "error", msg |-> m, index |-> index, pos |-> pos]
NewErrNoSupport(m, index, pos) ==
    [type |-> "ErrNoSupport", msg |-> m, index |-> index, pos |-> pos]

(* what a collaborator answers: success, an error, or an error of dynamic  *)
(* type registry.ErrNoSupport                                              *)
Responses == {"ok", "error", "ErrNoSupport"}
ErrorOf(resp, m, index, pos) ==
    IF resp = "ErrNoSupport" THEN NewErrNoSupport(m, index, pos) ELSE NewError(m, index, pos)

(* tag names, numbered in their lexicographic order; tagpkg.DefaultTag,    *)
(* "latest", is one of them, neither the least nor the greatest.  The tags *)
(* of a repository are distinct names, enumerated in any order.            *)
Tags == 1..MaxTags
DefaultTag == 2
TagLists ==
    {l \in UNION {[1..n -> Tags] : n \in 0..MaxTags} :
        \A j, k \in 1..Len(l) : j # k => l[j] # l[k]}

(* *types.RemoteImageInspect / *types.RepositoryTagList: the registry and  *)
(* the endpoint that produced it, and the TagList of a RepositoryTagList;  *)
(* NilRec is the nil pointer.                                              *)
NilRec == [index |-> 0, pos |-> 0, Version |-> 0, TagList |-> <<>>]
NewRec(index, pos, endpoint) ==
    [index |-> index, pos |-> pos, Version |-> endpoint.Version, TagList |-> <<>>]
NewTagList(index, pos, endpoint, tags) ==
    [index |-> index, pos |-> pos, Version |-> endpoint.Version, TagList |-> tags]

(* registry.APIEndpoint: Version, and whether URL starts with "https://"   *)
Endpoints == [Version : Versions, secure : BOOLEAN]
EndpointLists == UNION {[1..n -> Endpoints] : n \in 0..MaxEndpoints}

(* what LookupPullEndpoints may return to fetchManifest, which reads the   *)
(* URL of no endpoint: the lists are drawn with one scheme                 *)
InspectEndpointLists == {l \in EndpointLists : \A k \in 1..Len(l) : l[k].secure}

Last(s) == s[Len(s)]
Front(s) == SubSeq(s, 1, Len(s) - 1)

(***************************************************************************)
(* Fetchers and listers.  env holds what the collaborators answer during   *)
(* one Fetch / ListTags call; calls lists the collaborators consulted.     *)
(***************************************************************************)
Result(rec, fallback, e, calls) ==
    [rec |-> rec, fallback |-> fallback, err |-> e, calls |-> calls]

V1Envs == [tls : Responses, v1ep : Responses, session : Responses, work : Responses]

(* fetchWithSession may also answer "NotFound": the repository lookup got  *)
(* HTTP 404 ("Error: image ... not found"), or the asked tag is no key of   *)
(* the tag map ("Tag ... not found in repository ...")                     *)
V1FetchEnvs ==
    [tls : Responses, v1ep : Responses, session : Responses,
     work : Responses \cup {"NotFound"}]
FetchWithSessionError(resp, index, pos) ==
    IF resp = "NotFound" THEN NewError("not found", index, pos)
    ELSE ErrorOf(resp, "Fetch", index, pos)
V2Envs == [repo : Responses, work : Responses, cont : BOOLEAN]

(* the tags an endpoint enumerates to its lister.  session.GetRemoteTags   *)
(* answers a map, ranged over in any order; manSvc.Tags answers a list.    *)
(* The tags are read only once every call before has succeeded.            *)
V1TagLists == TagLists
V2TagLists == TagLists
RegistriesTagLists == {<<DefaultTag, 1>>}
V1ListEnvsCall ==
    [tls : Responses, v1ep : Responses, session : Responses, work : Responses,
     tags : {<<>>}]
    \cup [tls : {"ok"}, v1ep : {"ok"}, session : {"ok"}, work : {"ok"}, tags : V1TagLists]
V1ListEnvsRegistries ==
    [tls : Responses, v1ep : Responses, session : Responses, work : Responses,
     tags : {<<>>}]
    \cup [tls : {"ok"}, v1ep : {"ok"}, session : {"ok"}, work : {"ok"},
          tags : RegistriesTagLists]
V2ListEnvsCall ==
    [repo : Responses, work : Responses, cont : BOOLEAN, tags : {<<>>}]
    \cup [repo : {"ok"}, work : {"ok"}, cont : {FALSE}, tags : V2TagLists]
V2ListEnvsRegistries ==
    [repo : Responses, work : Responses, cont : BOOLEAN, tags : {<<>>}]
    \cup [repo : {"ok"}, work : {"ok"}, cont : {FALSE}, tags : RegistriesTagLists]
V1ListEnvs(sc) == IF sc = "call" THEN V1ListEnvsCall ELSE V1ListEnvsRegistries
V2ListEnvs(sc) == IF sc = "call" THEN V2ListEnvsCall ELSE V2ListEnvsRegistries

(* registry.ContinueOnError(err), as answered for this error               *)
ContinueOnError(env) == env.cont

(* v1ManifestFetcher.Fetch without its first statement: a digested         *)
(* reference goes on to the session like any other                         *)
v1FetchAnyReference(index, pos, endpoint, fref, env) ==
    IF env.tls # "ok"
    THEN Result(NilRec, FALSE, ErrorOf(env.tls, "Fetch", index, pos), <<"TLSConfig">>)
    ELSE IF env.v1ep # "ok"
    THEN Result(NilRec, TRUE, ErrorOf(env.v1ep, "Fetch", index, pos),
                <<"TLSConfig", "ToV1Endpoint">>)
    ELSE IF env.session # "ok"
    THEN Result(NilRec, TRUE, ErrorOf(env.session, "Fetch", index, pos),
                <<"TLSConfig", "ToV1Endpoint", "NewSession">>)
    ELSE IF env.work # "ok"
    THEN Result(NilRec, FALSE, FetchWithSessionError(env.work, index, pos),
                <<"TLSConfig", "ToV1Endpoint", "NewSession", "fetchWithSession">>)
    ELSE Result(NewRec(index, pos, endpoint), FALSE, Nil,
                <<"TLSConfig", "ToV1Endpoint", "NewSession", "fetchWithSession">>)

(* v1ManifestFetcher.Fetch handing every fetchWithSession error on as a    *)
(* fallback error                                                          *)
v1FetchFallbackAfterSession(index, pos, endpoint, fref, env) ==
    IF fref.form = "digested"
    THEN Result(NilRec, TRUE,
                NewErrNoSupport("Cannot pull by digest with v1 registry", index, pos), <<>>)
    ELSE IF env.tls # "ok"
    THEN Result(NilRec, FALSE, ErrorOf(env.tls, "Fetch", index, pos), <<"TLSConfig">>)
    ELSE IF env.v1ep # "ok"
    THEN Result(NilRec, TRUE, ErrorOf(env.v1ep, "Fetch", index, pos),
                <<"TLSConfig", "ToV1Endpoint">>)
    ELSE IF env.session # "ok"
    THEN Result(NilRec, TRUE, ErrorOf(env.session, "Fetch", index, pos),
                <<"TLSConfig", "ToV1Endpoint", "NewSession">>)
    ELSE IF env.work # "ok"
    THEN Result(NilRec, TRUE, FetchWithSessionError(env.work, index, pos),
                <<"TLSConfig", "ToV1Endpoint", "NewSession", "fetchWithSession">>)
    ELSE Result(NewRec(index, pos, endpoint), FALSE, Nil,
                <<"TLSConfig", "ToV1Endpoint", "NewSession", "fetchWithSession">>)

(* v1ManifestFetcher.Fetch *)
v1Fetch(index, pos, endpoint, fref, env) ==
    IF fref.form = "digested"
    THEN Result(NilRec, TRUE,
                NewErrNoSupport("Cannot pull by digest with v1 registry", index, pos), <<>>)
    ELSE IF env.tls # "ok"
    THEN Result(NilRec, FALSE, ErrorOf(env.tls, "Fetch", index, pos), <<"TLSConfig">>)
    ELSE IF env.v1ep # "ok"
    THEN Result(NilRec, TRUE, ErrorOf(env.v1ep, "Fetch", index, pos),
                <<"TLSConfig", "ToV1Endpoint">>)
    ELSE IF env.session # "ok"
    THEN Result(NilRec, TRUE, ErrorOf(env.session, "Fetch", index, pos),
                <<"TLSConfig", "ToV1Endpoint", "NewSession">>)
    ELSE IF env.work # "ok"
    THEN Result(NilRec, FALSE, FetchWithSessionError(env.work, index, pos),
                <<"TLSConfig", "ToV1Endpoint", "NewSession", "fetchWithSession">>)
    ELSE Result(NewRec(index, pos, endpoint), FALSE, Nil,
                <<"TLSConfig", "ToV1Endpoint", "NewSession", "fetchWithSession">>)

(* v2ManifestFetcher.Fetch with a failed NewV2Repository not flagged as    *)
(* fallback                                                                *)
v2FetchClientFatal(index, pos, endpoint, fref, env) ==
    IF env.repo # "ok"
    THEN Result(NilRec, FALSE, ErrorOf(env.repo, "Fetch", index, pos), <<"NewV2Repository">>)
    ELSE IF env.work # "ok"
    THEN Result(NilRec, ContinueOnError(env), ErrorOf(env.work, "Fetch", index, pos),
                <<"NewV2Repository", "fetchWithRepository">>)
    ELSE Result(NewRec(index, pos, endpoint), FALSE, Nil,
                <<"NewV2Repository", "fetchWithRepository">>)

(* v2ManifestFetcher.Fetch *)
v2Fetch(index, pos, endpoint, fref, env) ==
    IF env.repo # "ok"
    THEN Result(NilRec, TRUE, ErrorOf(env.repo, "Fetch", index, pos), <<"NewV2Repository">>)
    ELSE IF env.work # "ok"
    THEN Result(NilRec, ContinueOnError(env), ErrorOf(env.work, "Fetch", index, pos),
                <<"NewV2Repository", "fetchWithRepository">>)
    ELSE Result(NewRec(index, pos, endpoint), FALSE, Nil,
                <<"NewV2Repository", "fetchWithRepository">>)

(* v1TagLister.ListTags *)
v1ListTags(index, pos, endpoint, env) ==
    IF env.tls # "ok"
    THEN Result(NilRec, FALSE, ErrorOf(env.tls, "ListTags", index, pos), <<"TLSConfig">>)
    ELSE IF env.v1ep # "ok"
    THEN Result(NilRec, TRUE, ErrorOf(env.v1ep, "ListTags", index, pos),
                <<"TLSConfig", "ToV1Endpoint">>)
    ELSE IF env.session # "ok"
    THEN Result(NilRec, TRUE, ErrorOf(env.session, "ListTags", index, pos),
                <<"TLSConfig", "ToV1Endpoint", "NewSession">>)
    ELSE IF env.work # "ok"
    THEN Result(NilRec, FALSE, ErrorOf(env.work, "ListTags", index, pos),
                <<"TLSConfig", "ToV1Endpoint", "NewSession", "listTagsWithSession">>)
    ELSE IF Len(env.tags) < 1
    THEN Result(NilRec, FALSE, NewError("No tags available", index, pos),
                <<"TLSConfig", "ToV1Endpoint", "NewSession", "listTagsWithSession">>)
    ELSE Result(NewTagList(index, pos, endpoint, env.tags), FALSE, Nil,
                <<"TLSConfig", "ToV1Endpoint", "NewSession", "listTagsWithSession">>)

(* v2TagLister.ListTags *)
v2ListTags(index, pos, endpoint, env) ==
    IF env.repo # "ok"
    THEN Result(NilRec, TRUE, ErrorOf(env.repo, "ListTags", index, pos),
                <<"NewV2Repository">>)
    ELSE IF env.work # "ok"
    THEN Result(NilRec, ContinueOnError(env), ErrorOf(env.work, "ListTags", index, pos),
                <<"NewV2Repository", "listTagsWithRepository">>)
    ELSE Result(NewTagList(index, pos, endpoint, env.tags), FALSE, Nil,
                <<"NewV2Repository", "listTagsWithRepository">>)

(* newManifestFetcher: the fetcher for the endpoint's version, or an error *)
newManifestFetcher(endpoint, index, pos) ==
    CASE endpoint.Version = APIVersion2 -> [fetcher |-> "v2ManifestFetcher", err |-> Nil]
      [] endpoint.Version = APIVersion1 -> [fetcher |-> "v1ManifestFetcher", err |-> Nil]
      [] OTHER -> [fetcher |-> "nil", err |-> NewError("unknown version", index, pos)]

(* newTagLister *)
newTagLister(endpoint, index, pos) ==
    CASE endpoint.Version = APIVersion2 -> [lister |-> "v2TagLister", err |-> Nil]
      [] endpoint.Version = APIVersion1 -> [lister |-> "v1TagLister", err |-> Nil]
      [] OTHER -> [lister |-> "nil", err |-> NewError("unknown version", index, pos)]

(* every result fetcher.Fetch(ref) can give, over all collaborator answers *)
FetchResults(fetcher, index, pos, endpoint, fref) ==
    IF fetcher = "v1ManifestFetcher"
    THEN {v1Fetch(index, pos, endpoint, fref, env) : env \in V1FetchEnvs}
    ELSE {v2Fetch(index, pos, endpoint, fref, env) : env \in V2Envs}

(* every result tagLister.ListTags() can give *)
ListTagsResults(lister, index, pos, endpoint, sc) ==
    IF lister = "v1TagLister"
    THEN {v1ListTags(index, pos, endpoint, env) : env \in V1ListEnvs(sc)}
    ELSE {v2ListTags(index, pos, endpoint, env) : env \in V2ListEnvs(sc)}

(***************************************************************************)
(* The endpoint loop's bookkeeping.                                        *)
(***************************************************************************)

(* the update with every fallback error saved, ErrNoSupport or not         *)
RememberEveryError(last, discard, e) ==
    [lastErr |-> e, discardNoSupportErrors |-> discard \/ e.type # "ErrNoSupport"]

(* the update with an ErrNoSupport opening the way for the next one         *)
RememberErrorForgetting(last, discard, e) ==
    IF e.type # "ErrNoSupport"
    THEN [lastErr |-> e, discardNoSupportErrors |-> TRUE]
    ELSE IF ~discard
    THEN [lastErr |-> e, discardNoSupportErrors |-> discard]
    ELSE [lastErr |-> last, discardNoSupportErrors |-> FALSE]

(* the lastErr / discardNoSupportErrors update for a fallback error e      *)
RememberError(last, discard, e) ==
    IF e.type # "ErrNoSupport"
    THEN [lastErr |-> e, discardNoSupportErrors |-> TRUE]
    ELSE IF ~discard
    THEN [lastErr |-> e, discardNoSupportErrors |-> discard]
    ELSE [lastErr |-> last, discardNoSupportErrors |-> discard]

(* the loop going on after a success *)
fetchManifestNextPastSuccess(out, endpoint) ==
    IF out.err # Nil
    THEN IF out.fallback THEN "continue" ELSE "abort"
    ELSE "continue"

(* the loop going on after every error *)
fetchManifestNextAlwaysFallback(out, endpoint) ==
    IF out.err # Nil THEN "continue" ELSE "success"

(* fetchManifest: what the loop does with the result of fetcher.Fetch      *)
fetchManifestNext(out, endpoint) ==
    IF out.err # Nil
    THEN IF out.fallback THEN "continue" ELSE "abort"
    ELSE "success"

(* the loop going by the fallback flag alone *)
getRemoteTagListNextByFlag(out, endpoint) ==
    IF out.err # Nil
    THEN IF out.fallback THEN "continue" ELSE "abort"
    ELSE "success"

(* getRemoteTagList: what the loop does with the result of ListTags        *)
getRemoteTagListNext(out, endpoint) ==
    IF out.err # Nil
    THEN IF out.fallback \/ endpoint.Version = APIVersion1 THEN "continue" ELSE "abort"
    ELSE "success"

(* the generic error whatever was remembered *)
ExhaustedErrorGeneric(last, index) ==
    NewError("no endpoints found", index, 0)

(* the error returned once the endpoints are exhausted                     *)
ExhaustedError(last, index) ==
    IF last = Nil THEN NewError("no endpoints found", index, 0) ELSE last

(* byAPIVersion.Less comparing the versions only *)
LessByVersionOnly(a, b) ==
    a.Version < b.Version

(* byAPIVersion.Less *)
Less(a, b) ==
    \/ a.Version < b.Version
    \/ a.Version = b.Version /\ a.secure /\ ~b.secure

(* s and t hold the same endpoints, each as often *)
IsPermutation(s, t) ==
    /\ Len(s) = Len(t)
    /\ \A e \in Endpoints :
         Cardinality({k \in 1..Len(s) : s[k] = e}) = Cardinality({k \in 1..Len(t) : t[k] = e})

(* sort.Sort(byAPIVersion(endpoints)): the sort is not stable, so any      *)
(* ordering of the same endpoints with no element Less than an earlier one *)
SortedByAPIVersion(eps) ==
    {s \in [1..Len(eps) -> {eps[k] : k \in 1..Len(eps)}] :
        /\ IsPermutation(s, eps)
        /\ \A j, k \in 1..Len(eps) : j < k => ~Less(s[k], s[j])}

(* byTagName.Less *)
TagNameLess(a, b) == a < b

(* sort.Sort on a short slice: each element moves down past the elements   *)
(* it is Less than                                                         *)
RECURSIVE InsertByTagName(_, _)
InsertByTagName(s, t) ==
    IF s = <<>> \/ ~TagNameLess(t, Last(s))
    THEN Append(s, t)
    ELSE Append(InsertByTagName(Front(s), t), Last(s))

(* the tags left as the lister returned them *)
NotSorted(tags) == tags

(* sort.Sort(byTagName(tagList.TagList)) *)
RECURSIVE SortByTagName(_)
SortByTagName(tags) ==
    IF tags = <<>> THEN <<>>
    ELSE InsertByTagName(SortByTagName(Front(tags)), Last(tags))

(* getRemoteTagList: the tagList returned for the lister's record          *)
SortTags(rec) == [rec EXCEPT !.TagList = SortByTagName(@)]

(***************************************************************************)
(* The registry loop's bookkeeping.                                        *)
(***************************************************************************)
Forms == {"plain", "tagged", "digested"}

(* a reference: whether it names its registry (index, 0 when it does not)  *)
(* and whether it carries a tag, a digest or neither                       *)
ExplicitIndex == MaxRegistries + 1
References ==
    {rf \in [qualified : BOOLEAN, index : {0, ExplicitIndex}, form : Forms] :
        rf.qualified <=> rf.index # 0}

(* registry.RegistryList: the configured registries, named 1, 2, ...       *)
RegistryLists == {[k \in 1..n |-> k] : n \in 0..MaxRegistries}

(* The inputs are explored in two parts.  "registries": any reference and  *)
(* any registry list, with a registry service that hands out the endpoints *)
(* of a registry in byAPIVersion order already.  "call": a fully qualified *)
(* reference, with a registry service that hands them out in any order.    *)
Scopes == {"registries", "call"}

(* config.RegistryService.LookupPullEndpoints to getRemoteTagList: the     *)
(* lists it may return                                                     *)
LookupPullEndpoints(sc) ==
    IF sc = "call"
    THEN EndpointLists
    ELSE {l \in EndpointLists : l \in SortedByAPIVersion(l)}

(* registry.IsReferenceFullyQualified *)
IsReferenceFullyQualified(rf) == rf.qualified

(* registry.FullyQualifyReferenceWith(r, ref), when it succeeds            *)
FullyQualifyReferenceWith(name, rf) ==
    [qualified |-> TRUE, index |-> name, form |-> rf.form]

(* the registry loop stopping at a failed candidate *)
AfterResolveFirstOnly(e) == "return"

(* the registry loop going on after a success *)
AfterResolveAll(e) == "continue"

(* Inspect / ListRemoteTags: after fetchManifest / getRemoteTagList        *)
(* returned e for one registry of the list                                 *)
AfterResolve(e) ==
    IF e = Nil THEN "return" ELSE "continue"

(* err keeping the first error it was given *)
AssignErrOnce(old, e) == IF old = Nil THEN e ELSE old

(* Inspect / ListRemoteTags: err after a candidate gave the error e        *)
AssignErr(old, e) == e

NoRet == [rec |-> NilRec, err |-> Nil]
NoReturn == [rec |-> NilRec, err |-> Nil, how |-> "none"]
NoAttempt == [pos |-> 0, endpoint |-> [Version |-> 0, secure |-> FALSE], built |-> FALSE,
              rec |-> NilRec, fallback |-> FALSE, err |-> Nil, calls |-> <<>>]
Attempt(pos, endpoint, built, out) ==
    [pos |-> pos, endpoint |-> endpoint, built |-> built, rec |-> out.rec,
     fallback |-> out.fallback, err |-> out.err, calls |-> out.calls]

Candidate(name, how) == [index |-> name, how |-> how]
Settle(log, how) == [log EXCEPT ![Len(log)] = Candidate(log[Len(log)].index, how)]

(* the registry loop turns to its next registry: the locals of the call    *)
(* that returned are gone, nothing is tried or returned for the new one    *)
StartResolution ==
    /\ endpoints' = <<>>
    /\ looked' = <<>>
    /\ i' = 0
    /\ lastErr' = Nil
    /\ discardNoSupportErrors' = FALSE
    /\ tried' = <<>>
    /\ attempt' = NoAttempt
    /\ lastReal' = Nil
    /\ allFallback' = TRUE
    /\ returned' = NoReturn

(* fetchManifest / getRemoteTagList returns (rec, e) to its caller: the    *)
(* fully qualified call returns it as is, the registry loop returns on     *)
(* success and otherwise goes on with the next registry.                   *)
ReturnToCaller(rec, e, how) ==
    /\ returned' = [rec |-> rec, err |-> e, how |-> how]
    /\ candidates' = Settle(candidates, how)
    /\ IF IsReferenceFullyQualified(ref)
       THEN /\ pc' = "done"
            /\ ret' = [rec |-> rec, err |-> e]
            /\ UNCHANGED <<imageInspect, err, r>>
       ELSE /\ imageInspect' = rec
            /\ err' = AssignErr(err, e)
            /\ IF AfterResolve(e) = "return"
               THEN /\ pc' = "done"
                    /\ ret' = [rec |-> rec, err |-> Nil]
                    /\ r' = r
               ELSE /\ pc' = "registries"
                    /\ r' = r + 1
                    /\ ret' = ret

(***************************************************************************)
(* fetchWithSession and fetchWithRepository, call by call.                 *)
(***************************************************************************)

(* a tag as a string: 0 is "", the other tags are those of Tags            *)
NoTag == 0

(* digest.Digest values: "" is the digest of no manifest, and of the       *)
(* others Validate accepts one                                             *)
Digests == {"", "sha256:zz", "sha256:0a"}
Validate(dgst) == dgst = "sha256:0a"

(* the reference Fetch is given: its tag or its digest, or neither         *)
FetchRefs ==
    [form : {"plain"}, tag : {NoTag}, digest : {""}]
    \cup [form : {"tagged"}, tag : Tags, digest : {""}]
    \cup [form : {"digested"}, tag : {NoTag}, digest : {"sha256:0a"}]

(* errors of one call: the message, and for a wrapping error the place of  *)
(* the underlying cause                                                    *)
NoCause == <<"", 0>>
NoErr == [msg |-> "", cause |-> NoCause]
Err(m) == [msg |-> m, cause |-> NoCause]
Wrap(m, e) == [msg |-> m, cause |-> e.cause]

(* *image.Image, by the place it was pulled from; NilImg is nil            *)
NilImg == <<"", 0>>

(* *types.RemoteImageInspect as makeRemoteImageInspect fills it            *)
NilInspect == [made |-> FALSE, RepoTags |-> <<>>, RepoDigests |-> <<>>, img |-> NilImg]

(* makeRemoteImageInspect with the tag appended whatever it is *)
makeRemoteImageInspectAnyTag(img, tag, dgst, withTag) ==
    [made |-> TRUE,
     RepoTags |-> <<tag>>,
     RepoDigests |-> IF Validate(dgst) THEN <<dgst>> ELSE <<>>,
     img |-> img]

(* makeRemoteImageInspect; withTag: reference.WithTag accepts the tag      *)
makeRemoteImageInspect(img, tag, dgst, withTag) ==
    [made |-> TRUE,
     RepoTags |-> IF tag # NoTag /\ withTag THEN <<tag>> ELSE <<>>,
     RepoDigests |-> IF Validate(dgst) THEN <<dgst>> ELSE <<>>,
     img |-> img]

(* what a fetch returns, with the tag it resolved and the calls it made to *)
(* its collaborators, in order                                             *)
Fetched(rec, e, tag, calls) ==
    [rec |-> rec, err |-> e, tag |-> tag, calls |-> calls, history |-> <<>>,
     fallback |-> FALSE]
NoFetch ==
    [rec |-> NilInspect, err |-> NoErr, tag |-> NoTag, calls |-> <<"none">>, history |-> <<>>,
     fallback |-> FALSE]

(* a fetch that got as far as its history loop: the history built there *)
WithHistory(f, history) == [f EXCEPT !.history = history]

(* Fetch's named result fallback *)
WithFallback(f, fallback) == [f EXCEPT !.fallback = fallback]
NoInput == [ref |-> [form |-> "plain", tag |-> NoTag, digest |-> ""]]

Range(s) == {s[k] : k \in 1..Len(s)}

(* what pulling the image JSON from each mirror, each repository endpoint  *)
(* gives: TRUE for an image, FALSE for an error                            *)
PullAnswers == UNION {[1..n -> BOOLEAN] : n \in 0..MaxEndpoints}

(* the image JSON loops of fetchWithSession going through every place      *)
RECURSIVE pullImageJSONFromAll(_, _, _, _)
pullImageJSONFromAll(kind, answers, k, st) ==
    IF k > Len(answers) THEN st
    ELSE pullImageJSONFromAll(kind, answers, k + 1,
             [pulledImg |-> IF answers[k] THEN <<kind, k>> ELSE NilImg,
              err |-> IF answers[k] THEN NoErr
                      ELSE [msg |-> "GetRemoteImageJSON", cause |-> <<kind, k>>],
              calls |-> Append(st.calls, <<kind, k>>)])

(* fetchWithSession: one of its two loops over the places to pull the      *)
(* image JSON from, from place k on; st holds pulledImg, err and the       *)
(* places contacted so far                                                 *)
RECURSIVE pullImageJSONFrom(_, _, _, _)
pullImageJSONFrom(kind, answers, k, st) ==
    IF k > Len(answers) THEN st
    ELSE LET st1 == [pulledImg |-> IF answers[k] THEN <<kind, k>> ELSE NilImg,
                     err |-> IF answers[k] THEN NoErr
                             ELSE [msg |-> "GetRemoteImageJSON", cause |-> <<kind, k>>],
                     calls |-> Append(st.calls, <<kind, k>>)]
         IN  IF st1.err # NoErr
             THEN pullImageJSONFrom(kind, answers, k + 1, st1)
             ELSE st1

(* the tag of fetchWithSession chosen by name order *)
v1ResolveTagLeast(askedTag, tagsList) ==
    IF askedTag = NoTag
    THEN CHOOSE t \in Range(tagsList) : \A u \in Range(tagsList) : t <= u
    ELSE askedTag

(* fetchWithSession: the tag looked up in the tag map, which is not empty; *)
(* tagsList lists the keys of the map in the order range yields them       *)
v1ResolveTag(askedTag, tagsList) ==
    IF askedTag = NoTag
    THEN IF DefaultTag \in Range(tagsList) THEN DefaultTag ELSE tagsList[1]
    ELSE askedTag

(* what the collaborators of fetchWithSession answer *)
V1SessionEnvs ==
    [repoData : {"ok", "404", "error"}, tagsErr : BOOLEAN, tagsList : TagLists,
     mirrors : PullAnswers, endpoints : PullAnswers, withTag : BOOLEAN]

(* v1ManifestFetcher.fetchWithSession *)
fetchWithSession(askedTag, env) ==
    IF env.repoData = "404"
    THEN Fetched(NilInspect, Err("Error: image not found"), askedTag, <<"GetRepositoryData">>)
    ELSE IF env.repoData # "ok"
    THEN Fetched(NilInspect, Err("GetRepositoryData"), askedTag, <<"GetRepositoryData">>)
    ELSE IF env.tagsErr
    THEN Fetched(NilInspect, Err("GetRemoteTags"), askedTag,
                 <<"GetRepositoryData", "GetRemoteTags">>)
    ELSE IF Len(env.tagsList) < 1
    THEN Fetched(NilInspect, Err("No tags available"), askedTag,
                 <<"GetRepositoryData", "GetRemoteTags">>)
    ELSE LET tag == v1ResolveTag(askedTag, env.tagsList)
             st0 == [pulledImg |-> NilImg, err |-> NoErr,
                     calls |-> <<"GetRepositoryData", "GetRemoteTags">>]
         IN  IF tag \notin Range(env.tagsList)
             THEN Fetched(NilInspect, Err("Tag not found"), tag, st0.calls)
             ELSE LET m == pullImageJSONFrom("mirror", env.mirrors, 1, st0)
                      e == IF m.pulledImg = NilImg
                           THEN pullImageJSONFrom("endpoint", env.endpoints, 1, m)
                           ELSE m
                  IN  IF e.err # NoErr
                      THEN Fetched(NilInspect, Wrap("Error pulling image", e.err), tag, e.calls)
                      ELSE IF e.pulledImg = NilImg
                      THEN Fetched(NilInspect, Err("No such image"), tag, e.calls)
                      ELSE Fetched(makeRemoteImageInspect(e.pulledImg, tag, "", env.withTag),
                                   NoErr, tag, e.calls)

(* the tag of fetchWithRepository chosen by name order *)
v2ResolveTagLeast(tagList) ==
    IF \E k \in 1..Len(tagList) : tagList[k] = DefaultTag THEN DefaultTag
    ELSE IF Len(tagList) > 0
    THEN CHOOSE t \in Range(tagList) : \A u \in Range(tagList) : t <= u
    ELSE NoTag

(* fetchWithRepository: the tag chosen for a reference with neither tag    *)
(* nor digest, from the tags manSvc.Tags enumerated                        *)
v2ResolveTag(tagList) ==
    IF \E k \in 1..Len(tagList) : tagList[k] = DefaultTag THEN DefaultTag
    ELSE IF Len(tagList) > 0 THEN tagList[1]
    ELSE NoTag

(* the existence check taken for passed unless it failed *)
AfterExistsUnlessError(exists) ==
    IF exists = "error" THEN "fail" ELSE "get"

(* fetchWithRepository: what follows manSvc.Exists / manSvc.ExistsByTag.   *)
(* The check answers yes, no, or an error (and then exists is false).      *)
AfterExists(exists) ==
    CASE exists = "error" -> "fail"
      [] exists = "no" -> "absent"
      [] OTHER -> "get"

(* schema1 manifests.  FSLayers lists the layers top-most first, by their   *)
(* place in the manifest as received; History holds as many V1Compatibility *)
(* fragments in the same order, or, in a malformed manifest, any other     *)
(* number.  A fragment is plain, carries the throwaway marker, or does not *)
(* decode; repeat: it has the image id of the fragment after it.           *)
Fragments == [at : 1..MaxLayers, kind : {"plain", "throwaway", "bad"}, repeat : BOOLEAN]
HistoryLists ==
    {h \in UNION {[1..n -> Fragments] : n \in 0..MaxLayers} :
        /\ \A k \in 1..Len(h) : h[k].at = k
        /\ Len(h) > 0 => ~h[Len(h)].repeat}
LayerLists == {[k \in 1..n |-> k] : n \in 0..MaxLayers}
Manifests == [FSLayers : LayerLists, History : HistoryLists]
OneLayer ==
    [FSLayers |-> <<1>>, History |-> <<[at |-> 1, kind |-> "plain", repeat |-> FALSE]>>]

(* verifyManifest: the signature and reference checks fail (answer), or    *)
(* the structural checks do: the history entries are not as many as the    *)
(* layers, or there is no layer                                            *)
verifyManifest(m, answer) ==
    IF answer # "ok" THEN [err |-> Err("verifyManifest"), manifest |-> m]
    ELSE IF Len(m.FSLayers) # Len(m.History)
    THEN [err |-> Err("length of history not equal to number of layers"), manifest |-> m]
    ELSE IF Len(m.FSLayers) = 0
    THEN [err |-> Err("no FSLayers in manifest"), manifest |-> m]
    ELSE [err |-> NoErr, manifest |-> m]

(* fixManifestLayers: the parent chain is broken (answer), or the repeated *)
(* entries are removed, layer and fragment together                        *)
fixManifestLayers(m, answer) ==
    IF answer # "ok" THEN [err |-> Err("fixManifestLayers"), manifest |-> m]
    ELSE [err |-> NoErr,
          manifest |->
            [FSLayers |-> SelectSeq(m.FSLayers,
                                    LAMBDA l : l > Len(m.History) \/ ~m.History[l].repeat),
             History |-> SelectSeq(m.History, LAMBDA f : ~f.repeat)]]

(* v1.HistoryFromConfig: the history entry of a fragment, EmptyLayer as    *)
(* it is told                                                              *)
HistoryFromConfig(fragment, emptyLayer) ==
    [at |-> fragment.at, EmptyLayer |-> emptyLayer]

(* the history loop leaving the throwaway fragments out *)
RECURSIVE historyFromWithoutThrowaway(_, _, _)
historyFromWithoutThrowaway(m, k, history) ==
    IF k < 1 THEN [err |-> NoErr, history |-> history]
    ELSE IF k > Len(m.History)
    THEN [err |-> Err("index out of range"), history |-> history]
    ELSE IF m.History[k].kind = "bad"
    THEN [err |-> Err("HistoryFromConfig"), history |-> history]
    ELSE IF m.History[k].kind = "throwaway"
    THEN historyFromWithoutThrowaway(m, k - 1, history)
    ELSE historyFromWithoutThrowaway(m, k - 1,
             Append(history, HistoryFromConfig(m.History[k], FALSE)))

(* fetchWithRepository: its loop over the layers from index i = k down, places *)
(* counted from 1; a fragment that does not decode ends it, and so does a  *)
(* layer that has no fragment                                              *)
RECURSIVE historyFrom(_, _, _)
historyFrom(m, k, history) ==
    IF k < 1 THEN [err |-> NoErr, history |-> history]
    ELSE IF k > Len(m.History)
    THEN [err |-> Err("index out of range"), history |-> history]
    ELSE IF m.History[k].kind = "bad"
    THEN [err |-> Err("HistoryFromConfig"), history |-> history]
    ELSE historyFrom(m, k - 1,
             Append(history,
                    HistoryFromConfig(m.History[k], m.History[k].kind = "throwaway")))

(* what the collaborators of v2ManifestFetcher.Fetch answer; repo: what    *)
(* NewV2Repository answers; cont: what registry.ContinueOnError answers    *)
(* for the error of fetchWithRepository; verify, fix: the checks of        *)
(* verifyManifest and fixManifestLayers that do not read the counts;       *)
(* process: the image configuration is made of the history, the digest     *)
(* computed.  The manifest is read only once it has been fetched, and      *)
(* nothing else is once NewV2Repository has failed.                        *)
V2RepositoryEnvs ==
    [repo : {"ok"}, cont : BOOLEAN,
     manifests : {"ok", "error"}, exists : {"yes", "no", "error"}, tagsErr : BOOLEAN,
     tagList : TagLists, get : {"manifest", "nil", "error"}, process : {"ok", "error"},
     dgst : Digests, withTag : BOOLEAN,
     manifest : {OneLayer}, verify : {"ok"}, fix : {"ok"}]
    \cup [repo : {"ok"}, cont : BOOLEAN,
          manifests : {"ok"}, exists : {"yes"}, tagsErr : {FALSE},
          tagList : {<<DefaultTag>>}, get : {"manifest"}, process : {"ok", "error"},
          dgst : {"sha256:0a"}, withTag : {TRUE},
          manifest : Manifests, verify : {"ok", "error"}, fix : {"ok", "error"}]
    \cup [repo : {"error"}, cont : BOOLEAN,
          manifests : {"ok"}, exists : {"yes"}, tagsErr : {FALSE},
          tagList : {<<DefaultTag>>}, get : {"manifest"}, process : {"ok"},
          dgst : {"sha256:0a"}, withTag : {TRUE},
          manifest : {OneLayer}, verify : {"ok"}, fix : {"ok"}]

(* fetchWithRepository going on with a manifest that failed verification *)
fetchWithRepositoryManifestUnverified(tag, env, calls) ==
    IF env.get = "error"
    THEN Fetched(NilInspect, Err("Get"), tag, calls)
    ELSE IF env.get = "nil"
    THEN Fetched(NilInspect, Err("image manifest does not exist"), tag, calls)
    ELSE LET verified == verifyManifest(env.manifest, env.verify)
             fixed == fixManifestLayers(verified.manifest, env.fix)
             built == historyFrom(fixed.manifest, Len(fixed.manifest.FSLayers), <<>>)
         IN  IF fixed.err # NoErr
             THEN Fetched(NilInspect, fixed.err, tag, calls)
             ELSE IF built.err # NoErr
             THEN WithHistory(Fetched(NilInspect, built.err, tag, calls), built.history)
             ELSE IF env.process # "ok"
             THEN WithHistory(Fetched(NilInspect, Err("manifest"), tag, calls),
                              built.history)
             ELSE WithHistory(
                      Fetched(makeRemoteImageInspect(<<"manifest", 1>>, tag, env.dgst,
                                                     env.withTag),
                              NoErr, tag, calls),
                      built.history)

(* fetchWithRepository from the manifest fetch on *)
fetchWithRepositoryManifest(tag, env, calls) ==
    IF env.get = "error"
    THEN Fetched(NilInspect, Err("Get"), tag, calls)
    ELSE IF env.get = "nil"
    THEN Fetched(NilInspect, Err("image manifest does not exist"), tag, calls)
    ELSE LET verified == verifyManifest(env.manifest, env.verify)
             fixed == fixManifestLayers(verified.manifest, env.fix)
             built == historyFrom(fixed.manifest, Len(fixed.manifest.FSLayers), <<>>)
         IN  IF verified.err # NoErr
             THEN Fetched(NilInspect, verified.err, tag, calls)
             ELSE IF fixed.err # NoErr
             THEN Fetched(NilInspect, fixed.err, tag, calls)
             ELSE IF built.err # NoErr
             THEN WithHistory(Fetched(NilInspect, built.err, tag, calls), built.history)
             ELSE IF env.process # "ok"
             THEN WithHistory(Fetched(NilInspect, Err("manifest"), tag, calls),
                              built.history)
             ELSE WithHistory(
                      Fetched(makeRemoteImageInspect(<<"manifest", 1>>, tag, env.dgst,
                                                     env.withTag),
                              NoErr, tag, calls),
                      built.history)

(* v2ManifestFetcher.fetchWithRepository *)
fetchWithRepository(fref, env) ==
    IF env.manifests # "ok"
    THEN Fetched(NilInspect, Err("Manifests"), NoTag, <<"Manifests">>)
    ELSE IF fref.form = "digested"
    THEN CASE AfterExists(env.exists) = "absent" ->
                Fetched(NilInspect, Err("Digest does not exist"), NoTag,
                        <<"Manifests", "Exists">>)
           [] AfterExists(env.exists) = "fail" ->
                Fetched(NilInspect, Err("Exists"), NoTag, <<"Manifests", "Exists">>)
           [] OTHER ->
                fetchWithRepositoryManifest(NoTag, env, <<"Manifests", "Exists", "Get">>)
    ELSE IF fref.form = "tagged"
    THEN CASE AfterExists(env.exists) = "fail" ->
                Fetched(NilInspect, Err("ExistsByTag"), fref.tag,
                        <<"Manifests", "ExistsByTag">>)
           [] AfterExists(env.exists) = "absent" ->
                Fetched(NilInspect, Err("Tag does not exist"), fref.tag,
                        <<"Manifests", "ExistsByTag">>)
           [] OTHER ->
                fetchWithRepositoryManifest(fref.tag, env,
                                            <<"Manifests", "ExistsByTag", "GetByTag">>)
    ELSE IF env.tagsErr
    THEN Fetched(NilInspect, Err("Tags"), NoTag, <<"Manifests", "Tags">>)
    ELSE LET tag == v2ResolveTag(env.tagList)
         IN  IF tag = NoTag
             THEN Fetched(NilInspect, Err("No tags available"), tag, <<"Manifests", "Tags">>)
             ELSE fetchWithRepositoryManifest(tag, env, <<"Manifests", "Tags", "GetByTag">>)

(* v2ManifestFetcher.Fetch setting fallback on every error of              *)
(* fetchWithRepository                                                     *)
v2ManifestFetcherFetchAlwaysFallback(fref, env) ==
    IF env.repo # "ok"
    THEN WithFallback(Fetched(NilInspect, Err("NewV2Repository"), NoTag, <<>>), TRUE)
    ELSE LET f == fetchWithRepository(fref, env)
         IN  WithFallback(f, f.err # NoErr)

(* v2ManifestFetcher.Fetch, its repository client built by NewV2Repository *)
v2ManifestFetcherFetch(fref, env) ==
    IF env.repo # "ok"
    THEN WithFallback(Fetched(NilInspect, Err("NewV2Repository"), NoTag, <<>>), TRUE)
    ELSE LET f == fetchWithRepository(fref, env)
         IN  WithFallback(f, f.err # NoErr /\ ContinueOnError(env))

(***************************************************************************)
(* One ListTags call and the list getRemoteTagList returns for it.         *)
(***************************************************************************)
(* the errors of a lister; errcode.Errors is a slice of errors, its        *)
(* elements told apart by their code                                       *)
NoListErr == [type |-> "nil", msg |-> "", code |-> 0, elems |-> <<>>]
ListErr(m) == [type |-> "error", msg |-> m, code |-> 0, elems |-> <<>>]
ErrorCode(k) == [type |-> "error", msg |-> "errcode.Error", code |-> k, elems |-> <<>>]
Errors(n) ==
    [type |-> "Errors", msg |-> "errcode.Errors", code |-> 0,
     elems |-> [k \in 1..n |-> ErrorCode(k)]]

(* what manSvc.Tags may answer as its error *)
TagsErrors == {ListErr("Tags")} \cup {Errors(n) : n \in 0..MaxErrors}

(* the errors registry.ContinueOnError may be asked about *)
ListErrors ==
    {ListErr("Manifests")} \cup TagsErrors \cup {ErrorCode(k) : k \in 1..MaxErrors}

(* *types.RepositoryTag; ImageID is "" when it was not set *)
ImageIDs == {"id1", "id2"}

(* a record made without its image id *)
RepositoryTagWithoutImageID(tag, imageID) == [Tag |-> tag, ImageID |-> ""]

RepositoryTag(tag, imageID) == [Tag |-> tag, ImageID |-> imageID]

(* registry.RepositoryInfo: the three names of the repository *)
RepoInfos ==
    {[CanonicalName |-> "docker.io/library/busybox", LocalName |-> "busybox",
      RemoteName |-> "library/busybox"],
     [CanonicalName |-> "example.com/app", LocalName |-> "example.com/app",
      RemoteName |-> "app"]}

(* *types.RepositoryTagList *)
NilTagList == [Name |-> "", TagList |-> <<>>]

(* what ListTags returns, and tagList: what getRemoteTagList returns for it *)
Listed(list, fallback, e) ==
    [list |-> list, fallback |-> fallback, err |-> e, tagList |-> NilTagList]
(* no lister has returned: a list that succeeded has its Name set *)
NoList == [list |-> <<>>, fallback |-> FALSE, err |-> NoListErr, tagList |-> NilTagList]
NoListInput == [repoInfo |-> "none"]

(* session.GetRemoteTags answers a map from tag to image id, tagsList;     *)
(* order is the order the range statement goes through its keys in.        *)
TagMaps ==
    UNION {[tagsList : [Range(l) -> ImageIDs], order : {l}] : l \in TagLists}
V1ListerEnvs ==
    [tls : {"ok", "error"}, v1ep : {"ok", "error"}, session : {"ok", "error"},
     repoData : {"ok", "404", "error"}, tagsErr : BOOLEAN,
     tags : {[tagsList |-> <<>>, order |-> <<>>]}]
    \cup [tls : {"ok"}, v1ep : {"ok"}, session : {"ok"}, repoData : {"ok"},
          tagsErr : {FALSE}, tags : TagMaps]

(* what the collaborators of v2TagLister.ListTags answer; cont: the errors *)
(* registry.ContinueOnError answers true for                               *)
V2ListerEnvs ==
    [repo : {"ok", "error"}, manifests : {"ok", "error"},
     tagsErr : TagsErrors \cup {NoListErr}, tags : {<<>>}, cont : SUBSET ListErrors]
    \cup [repo : {"ok"}, manifests : {"ok"}, tagsErr : {NoListErr}, tags : TagLists,
          cont : {{}}]

(* v1TagLister.listTagsWithSession returning an empty map's empty list *)
listTagsWithSessionAllowingNone(env) ==
    IF env.repoData = "404" THEN [list |-> <<>>, err |-> ListErr("Error: image not found")]
    ELSE IF env.repoData # "ok" THEN [list |-> <<>>, err |-> ListErr("GetRepositoryData")]
    ELSE IF env.tagsErr THEN [list |-> <<>>, err |-> ListErr("GetRemoteTags")]
    ELSE [list |-> [k \in 1..Len(env.tags.order) |->
                      RepositoryTag(env.tags.order[k], env.tags.tagsList[env.tags.order[k]])],
          err |-> NoListErr]

(* v1TagLister.listTagsWithSession *)
listTagsWithSession(env) ==
    IF env.repoData = "404" THEN [list |-> <<>>, err |-> ListErr("Error: image not found")]
    ELSE IF env.repoData # "ok" THEN [list |-> <<>>, err |-> ListErr("GetRepositoryData")]
    ELSE IF env.tagsErr THEN [list |-> <<>>, err |-> ListErr("GetRemoteTags")]
    ELSE IF Len(env.tags.order) < 1
    THEN [list |-> <<>>, err |-> ListErr("No tags available")]
    ELSE [list |-> [k \in 1..Len(env.tags.order) |->
                      RepositoryTag(env.tags.order[k], env.tags.tagsList[env.tags.order[k]])],
          err |-> NoListErr]

(* v1TagLister.ListTags *)
v1TagListerListTags(env) ==
    IF env.tls # "ok" THEN Listed(<<>>, FALSE, ListErr("TLSConfig"))
    ELSE IF env.v1ep # "ok" THEN Listed(<<>>, TRUE, ListErr("ToV1Endpoint"))
    ELSE IF env.session # "ok" THEN Listed(<<>>, TRUE, ListErr("NewSession"))
    ELSE LET l == listTagsWithSession(env) IN Listed(l.list, FALSE, l.err)

(* v2TagLister.listTagsWithRepository returning every error of Tags as it  *)
(* came                                                                    *)
listTagsWithRepositoryKeepingErrors(env) ==
    IF env.manifests # "ok" THEN [list |-> <<>>, err |-> ListErr("Manifests")]
    ELSE IF env.tagsErr # NoListErr
    THEN [list |-> <<>>, err |-> env.tagsErr]
    ELSE [list |-> [k \in 1..Len(env.tags) |-> RepositoryTag(env.tags[k], "")],
          err |-> NoListErr]

(* v2TagLister.listTagsWithRepository *)
listTagsWithRepository(env) ==
    IF env.manifests # "ok" THEN [list |-> <<>>, err |-> ListErr("Manifests")]
    ELSE IF env.tagsErr # NoListErr
    THEN IF env.tagsErr.type = "Errors" /\ Len(env.tagsErr.elems) = 1
         THEN [list |-> <<>>, err |-> env.tagsErr.elems[1]]
         ELSE [list |-> <<>>, err |-> env.tagsErr]
    ELSE [list |-> [k \in 1..Len(env.tags) |-> RepositoryTag(env.tags[k], "")],
          err |-> NoListErr]

(* v2TagLister.ListTags *)
v2TagListerListTags(env) ==
    IF env.repo # "ok" THEN Listed(<<>>, TRUE, ListErr("NewV2Repository"))
    ELSE LET l == listTagsWithRepository(env)
         IN  Listed(l.list, l.err # NoListErr /\ l.err \in env.cont, l.err)

(* sort.Sort(byTagName(tagList.TagList)), Less comparing the Tag fields *)
RECURSIVE insertRepositoryTag(_, _)
insertRepositoryTag(s, t) ==
    IF s = <<>> \/ ~TagNameLess(t.Tag, Last(s).Tag)
    THEN Append(s, t)
    ELSE Append(insertRepositoryTag(Front(s), t), Last(s))
RECURSIVE byTagName(_)
byTagName(list) ==
    IF list = <<>> THEN <<>>
    ELSE insertRepositoryTag(byTagName(Front(list)), Last(list))

(* getRemoteTagList for the endpoint of this lister: the tagList returned  *)
(* once ListTags has succeeded                                             *)
WithTagList(l, repoInfo) ==
    IF l.err # NoListErr THEN l
    ELSE [l EXCEPT !.tagList = [Name |-> repoInfo.CanonicalName,
                                TagList |-> byTagName(l.list)]]

(* no two calls are followed *)
NoCalls ==
    /\ service = <<>>
    /\ frames = <<>>
    /\ locals = <<>>

(* no entry point has been called yet *)
Started ==
    /\ pc = "call"
    /\ r = 0
    /\ fqr = ref
    /\ imageInspect = NilRec
    /\ err = Nil
    /\ endpoints = <<>>
    /\ looked = <<>>
    /\ i = 0
    /\ lastErr = Nil
    /\ discardNoSupportErrors = FALSE
    /\ ret = NoRet
    /\ regListRead = FALSE
    /\ candidates = <<>>
    /\ tried = <<>>
    /\ attempt = NoAttempt
    /\ lastReal = Nil
    /\ allFallback = TRUE
    /\ returned = NoReturn

(***************************************************************************)
(* Initial state: an entry point is about to be called.                    *)
(***************************************************************************)
Init ==
    /\ op \in {"Inspect", "ListRemoteTags"}
    /\ scope \in Scopes
    /\ ref \in References
    /\ RegistryList \in RegistryLists
    /\ scope = "call" => (IsReferenceFullyQualified(ref) /\ RegistryList = <<>>)
    \* ListRemoteTags and all it calls read neither the tag nor the digest of ref
    /\ op = "ListRemoteTags" => ref.form = "plain"
    /\ mf = "none"
    /\ fetchIn = NoInput
    /\ fetched = NoFetch
    /\ listIn = NoListInput
    /\ listed = NoList
    /\ NoCalls
    /\ Started

(***************************************************************************)
(* Inspect                                                                 *)
(***************************************************************************)

(* Inspect, up to the registry loop *)
Inspect ==
    /\ pc = "call"
    /\ op = "Inspect"
    /\ IF IsReferenceFullyQualified(ref)
       THEN /\ pc' = "resolve"
            /\ fqr' = ref
            /\ candidates' = <<Candidate(ref.index, "pending")>>
            /\ UNCHANGED <<regListRead, r, ret>>
       ELSE /\ regListRead' = TRUE
            /\ IF Len(RegistryList) = 0
               THEN /\ pc' = "done"
                    /\ ret' = [rec |-> NilRec,
                               err |-> NewError("No configured registry to pull from.", 0, 0)]
                    /\ UNCHANGED r
               ELSE /\ pc' = "registries"
                    /\ r' = 1
                    /\ UNCHANGED ret
            /\ UNCHANGED <<fqr, candidates>>
    /\ UNCHANGED <<fetchVars, concVars, op, scope, ref, RegistryList, imageInspect, err, endpoints, looked, i, lastErr,
                   discardNoSupportErrors, tried, attempt, lastReal, allFallback, returned>>

(* the registry loop's body with a failed qualification returned at once *)
InspectQualifyOrFail ==
    /\ pc = "registries"
    /\ op = "Inspect"
    /\ r <= Len(RegistryList)
    /\ \E resp \in {"ok", "error"} :
         IF resp = "error"
         THEN /\ pc' = "done"
              /\ ret' = [rec |-> NilRec,
                         err |-> NewError("FullyQualifyReferenceWith", RegistryList[r], 0)]
              /\ candidates' = Append(candidates,
                                      Candidate(RegistryList[r], "FullyQualifyReferenceWith"))
              /\ UNCHANGED <<err, r, fqr>>
         ELSE /\ pc' = "resolve"
              /\ fqr' = FullyQualifyReferenceWith(RegistryList[r], ref)
              /\ candidates' = Append(candidates, Candidate(RegistryList[r], "pending"))
              /\ UNCHANGED <<err, r, ret>>
    /\ StartResolution
    /\ UNCHANGED <<fetchVars, concVars, op, scope, ref, RegistryList, regListRead, imageInspect>>

(* the registry loop's body up to the call of fetchManifest *)
InspectQualify ==
    /\ pc = "registries"
    /\ op = "Inspect"
    /\ r <= Len(RegistryList)
    /\ \E resp \in {"ok", "error"} :
         IF resp = "error"
         THEN /\ err' = AssignErr(err, NewError("FullyQualifyReferenceWith", RegistryList[r], 0))
              /\ r' = r + 1
              /\ candidates' = Append(candidates,
                                      Candidate(RegistryList[r], "FullyQualifyReferenceWith"))
              /\ UNCHANGED <<pc, fqr>>
         ELSE /\ pc' = "resolve"
              /\ fqr' = FullyQualifyReferenceWith(RegistryList[r], ref)
              /\ candidates' = Append(candidates, Candidate(RegistryList[r], "pending"))
              /\ UNCHANGED <<err, r>>
    /\ StartResolution
    /\ UNCHANGED <<fetchVars, concVars, op, scope, ref, RegistryList, regListRead, imageInspect, ret>>

(* the registry loop ran out of registries *)
InspectReturn ==
    /\ pc = "registries"
    /\ op = "Inspect"
    /\ r > Len(RegistryList)
    /\ pc' = "done"
    /\ ret' = [rec |-> imageInspect, err |-> err]
    /\ UNCHANGED <<fetchVars, concVars, op, scope, ref, RegistryList, regListRead, r, fqr, imageInspect, err,
                   endpoints, looked, i, lastErr, discardNoSupportErrors, candidates, tried,
                   attempt, lastReal, allFallback, returned>>

(* fetchManifest sorting its endpoints the way getRemoteTagList does *)
fetchManifestSorting ==
    /\ pc = "resolve"
    /\ op = "Inspect"
    /\ \/ /\ \E m \in {"ResolveRepository", "validateRepoName", "LookupPullEndpoints"} :
               ReturnToCaller(NilRec, NewError(m, fqr.index, 0), m)
          /\ UNCHANGED <<endpoints, looked, i, lastErr, discardNoSupportErrors>>
       \/ /\ \E eps \in InspectEndpointLists :
                /\ looked' = eps
                /\ endpoints' \in SortedByAPIVersion(eps)
          /\ i' = 1
          /\ lastErr' = Nil
          /\ discardNoSupportErrors' = FALSE
          /\ pc' = "endpoints"
          /\ UNCHANGED <<candidates, imageInspect, err, r, ret, returned>>
    /\ UNCHANGED <<fetchVars, concVars, op, scope, ref, RegistryList, regListRead, fqr, tried, attempt, lastReal,
                   allFallback>>

(* fetchManifest, up to the endpoint loop *)
fetchManifest ==
    /\ pc = "resolve"
    /\ op = "Inspect"
    /\ \/ /\ \E m \in {"ResolveRepository", "validateRepoName", "LookupPullEndpoints"} :
               ReturnToCaller(NilRec, NewError(m, fqr.index, 0), m)
          /\ UNCHANGED <<endpoints, looked, i, lastErr, discardNoSupportErrors>>
       \/ /\ \E eps \in InspectEndpointLists :
                /\ looked' = eps
                /\ endpoints' = eps
          /\ i' = 1
          /\ lastErr' = Nil
          /\ discardNoSupportErrors' = FALSE
          /\ pc' = "endpoints"
          /\ UNCHANGED <<candidates, imageInspect, err, r, ret, returned>>
    /\ UNCHANGED <<fetchVars, concVars, op, scope, ref, RegistryList, regListRead, fqr, tried, attempt, lastReal,
                   allFallback>>

(* one iteration of fetchManifest's endpoint loop *)
fetchManifestEndpoint ==
    /\ pc = "endpoints"
    /\ op = "Inspect"
    /\ i <= Len(endpoints)
    /\ tried' = Append(tried, i)
    /\ LET endpoint == endpoints[i]
           made == newManifestFetcher(endpoint, fqr.index, i)
       IN  IF made.err # Nil
           THEN /\ lastErr' = made.err
                /\ i' = i + 1
                /\ attempt' = Attempt(i, endpoint, FALSE, Result(NilRec, FALSE, made.err, <<>>))
                /\ allFallback' = FALSE
                /\ UNCHANGED <<pc, discardNoSupportErrors, candidates, imageInspect, err, r,
                               ret, lastReal, returned>>
           ELSE \E out \in FetchResults(made.fetcher, fqr.index, i, endpoint, fqr) :
                /\ attempt' = Attempt(i, endpoint, TRUE, out)
                /\ allFallback' = (allFallback /\ out.err # Nil /\ out.fallback)
                /\ lastReal' = IF out.err # Nil /\ out.fallback /\ out.err.type # "ErrNoSupport"
                               THEN out.err ELSE lastReal
                /\ LET next == fetchManifestNext(out, endpoint)
                       saved == RememberError(lastErr, discardNoSupportErrors, out.err)
                   IN  CASE next = "continue" ->
                              /\ lastErr' = saved.lastErr
                              /\ discardNoSupportErrors' = saved.discardNoSupportErrors
                              /\ i' = i + 1
                              /\ UNCHANGED <<pc, candidates, imageInspect, err, r, ret, returned>>
                         [] next = "abort" ->
                              /\ ReturnToCaller(NilRec, out.err, "abort")
                              /\ UNCHANGED <<i, lastErr, discardNoSupportErrors>>
                         [] OTHER ->
                              /\ ReturnToCaller(out.rec, Nil, "success")
                              /\ UNCHANGED <<i, lastErr, discardNoSupportErrors>>
    /\ UNCHANGED <<fetchVars, concVars, op, scope, ref, RegistryList, regListRead, fqr, endpoints, looked>>

(* fetchManifest's endpoint loop ran out of endpoints *)
fetchManifestExhausted ==
    /\ pc = "endpoints"
    /\ op = "Inspect"
    /\ i > Len(endpoints)
    /\ lastErr' = ExhaustedError(lastErr, fqr.index)
    /\ ReturnToCaller(NilRec, ExhaustedError(lastErr, fqr.index), "exhausted")
    /\ UNCHANGED <<fetchVars, concVars, op, scope, ref, RegistryList, regListRead, fqr, endpoints, looked, i,
                   discardNoSupportErrors, tried, attempt, lastReal, allFallback>>

(***************************************************************************)
(* ListRemoteTags                                                          *)
(***************************************************************************)

(* ListRemoteTags validating the repository name before it reads the       *)
(* registry list                                                           *)
ListRemoteTagsValidatingFirst ==
    /\ pc = "call"
    /\ op = "ListRemoteTags"
    /\ IF IsReferenceFullyQualified(ref)
       THEN /\ pc' = "resolve"
            /\ fqr' = ref
            /\ candidates' = <<Candidate(ref.index, "pending")>>
            /\ UNCHANGED <<regListRead, r, ret>>
       ELSE /\ regListRead' = TRUE
            /\ \E valid \in BOOLEAN :
                 IF ~valid
                 THEN /\ pc' = "done"
                      /\ ret' = [rec |-> NilRec,
                                 err |-> NewError("ValidateRepositoryName", 0, 0)]
                      /\ UNCHANGED r
                 ELSE IF Len(RegistryList) = 0
                 THEN /\ pc' = "done"
                      /\ ret' = [rec |-> NilRec,
                                 err |-> NewError("No configured registry to pull from.", 0, 0)]
                      /\ UNCHANGED r
                 ELSE /\ pc' = "registries"
                      /\ r' = 1
                      /\ UNCHANGED ret
            /\ UNCHANGED <<fqr, candidates>>
    /\ UNCHANGED <<fetchVars, concVars, op, scope, ref, RegistryList, imageInspect, err, endpoints, looked, i, lastErr,
                   discardNoSupportErrors, tried, attempt, lastReal, allFallback, returned>>

(* ListRemoteTags, up to the registry loop *)
ListRemoteTags ==
    /\ pc = "call"
    /\ op = "ListRemoteTags"
    /\ IF IsReferenceFullyQualified(ref)
       THEN /\ pc' = "resolve"
            /\ fqr' = ref
            /\ candidates' = <<Candidate(ref.index, "pending")>>
            /\ UNCHANGED <<regListRead, r, ret>>
       ELSE /\ regListRead' = TRUE
            /\ IF Len(RegistryList) = 0
               THEN /\ pc' = "done"
                    /\ ret' = [rec |-> NilRec,
                               err |-> NewError("No configured registry to pull from.", 0, 0)]
                    /\ UNCHANGED r
               ELSE \E valid \in BOOLEAN :
                      IF ~valid
                      THEN /\ pc' = "done"
                           /\ ret' = [rec |-> NilRec,
                                      err |-> NewError("ValidateRepositoryName", 0, 0)]
                           /\ UNCHANGED r
                      ELSE /\ pc' = "registries"
                           /\ r' = 1
                           /\ UNCHANGED ret
            /\ UNCHANGED <<fqr, candidates>>
    /\ UNCHANGED <<fetchVars, concVars, op, scope, ref, RegistryList, imageInspect, err, endpoints, looked, i, lastErr,
                   discardNoSupportErrors, tried, attempt, lastReal, allFallback, returned>>

(* the registry loop's body up to the call of getRemoteTagList *)
ListRemoteTagsQualify ==
    /\ pc = "registries"
    /\ op = "ListRemoteTags"
    /\ r <= Len(RegistryList)
    /\ \E resp \in {"ok", "error"} :
         IF resp = "error"
         THEN /\ err' = AssignErr(err, NewError("FullyQualifyReferenceWith", RegistryList[r], 0))
              /\ r' = r + 1
              /\ candidates' = Append(candidates,
                                      Candidate(RegistryList[r], "FullyQualifyReferenceWith"))
              /\ UNCHANGED <<pc, fqr>>
         ELSE /\ pc' = "resolve"
              /\ fqr' = FullyQualifyReferenceWith(RegistryList[r], ref)
              /\ candidates' = Append(candidates, Candidate(RegistryList[r], "pending"))
              /\ UNCHANGED <<err, r>>
    /\ StartResolution
    /\ UNCHANGED <<fetchVars, concVars, op, scope, ref, RegistryList, regListRead, imageInspect, ret>>

(* the registry loop ran out of registries *)
ListRemoteTagsReturn ==
    /\ pc = "registries"
    /\ op = "ListRemoteTags"
    /\ r > Len(RegistryList)
    /\ pc' = "done"
    /\ ret' = [rec |-> imageInspect, err |-> err]
    /\ UNCHANGED <<fetchVars, concVars, op, scope, ref, RegistryList, regListRead, r, fqr, imageInspect, err,
                   endpoints, looked, i, lastErr, discardNoSupportErrors, candidates, tried,
                   attempt, lastReal, allFallback, returned>>

(* getRemoteTagList, up to the endpoint loop *)
getRemoteTagList ==
    /\ pc = "resolve"
    /\ op = "ListRemoteTags"
    /\ \/ /\ \E m \in {"ResolveRepository", "validateRepoName", "LookupPullEndpoints"} :
               ReturnToCaller(NilRec, NewError(m, fqr.index, 0), m)
          /\ UNCHANGED <<endpoints, looked, i, lastErr, discardNoSupportErrors>>
       \/ /\ \E eps \in LookupPullEndpoints(scope) :
                /\ looked' = eps
                /\ endpoints' \in SortedByAPIVersion(eps)
          /\ i' = 1
          /\ lastErr' = Nil
          /\ discardNoSupportErrors' = FALSE
          /\ pc' = "endpoints"
          /\ UNCHANGED <<candidates, imageInspect, err, r, ret, returned>>
    /\ UNCHANGED <<fetchVars, concVars, op, scope, ref, RegistryList, regListRead, fqr, tried, attempt, lastReal,
                   allFallback>>

(* one iteration of getRemoteTagList's endpoint loop *)
getRemoteTagListEndpoint ==
    /\ pc = "endpoints"
    /\ op = "ListRemoteTags"
    /\ i <= Len(endpoints)
    /\ tried' = Append(tried, i)
    /\ LET endpoint == endpoints[i]
           made == newTagLister(endpoint, fqr.index, i)
       IN  IF made.err # Nil
           THEN /\ lastErr' = made.err
                /\ i' = i + 1
                /\ attempt' = Attempt(i, endpoint, FALSE, Result(NilRec, FALSE, made.err, <<>>))
                /\ allFallback' = FALSE
                /\ UNCHANGED <<pc, discardNoSupportErrors, candidates, imageInspect, err, r,
                               ret, lastReal, returned>>
           ELSE \E out \in ListTagsResults(made.lister, fqr.index, i, endpoint, scope) :
                /\ attempt' = Attempt(i, endpoint, TRUE, out)
                /\ allFallback' = (allFallback /\ out.err # Nil /\ out.fallback)
                /\ lastReal' = IF out.err # Nil /\ out.fallback /\ out.err.type # "ErrNoSupport"
                               THEN out.err ELSE lastReal
                /\ LET next == getRemoteTagListNext(out, endpoint)
                       saved == RememberError(lastErr, discardNoSupportErrors, out.err)
                   IN  CASE next = "continue" ->
                              /\ lastErr' = saved.lastErr
                              /\ discardNoSupportErrors' = saved.discardNoSupportErrors
                              /\ i' = i + 1
                              /\ UNCHANGED <<pc, candidates, imageInspect, err, r, ret, returned>>
                         [] next = "abort" ->
                              /\ ReturnToCaller(NilRec, out.err, "abort")
                              /\ UNCHANGED <<i, lastErr, discardNoSupportErrors>>
                         [] OTHER ->
                              /\ ReturnToCaller(SortTags(out.rec), Nil, "success")
                              /\ UNCHANGED <<i, lastErr, discardNoSupportErrors>>
    /\ UNCHANGED <<fetchVars, concVars, op, scope, ref, RegistryList, regListRead, fqr, endpoints, looked>>

(* getRemoteTagList returning the tagList it declared together with the    *)
(* error once the endpoints are exhausted                                  *)
getRemoteTagListExhaustedWithTagList ==
    /\ pc = "endpoints"
    /\ op = "ListRemoteTags"
    /\ i > Len(endpoints)
    /\ lastErr' = ExhaustedError(lastErr, fqr.index)
    /\ ReturnToCaller(NewTagList(fqr.index, 0, NoAttempt.endpoint, <<>>),
                      ExhaustedError(lastErr, fqr.index), "exhausted")
    /\ UNCHANGED <<fetchVars, concVars, op, scope, ref, RegistryList, regListRead, fqr, endpoints, looked, i,
                   discardNoSupportErrors, tried, attempt, lastReal, allFallback>>

(* getRemoteTagList's endpoint loop ran out of endpoints *)
getRemoteTagListExhausted ==
    /\ pc = "endpoints"
    /\ op = "ListRemoteTags"
    /\ i > Len(endpoints)
    /\ lastErr' = ExhaustedError(lastErr, fqr.index)
    /\ ReturnToCaller(NilRec, ExhaustedError(lastErr, fqr.index), "exhausted")
    /\ UNCHANGED <<fetchVars, concVars, op, scope, ref, RegistryList, regListRead, fqr, endpoints, looked, i,
                   discardNoSupportErrors, tried, attempt, lastReal, allFallback>>

Next ==
    \/ Inspect
    \/ InspectQualify
    \/ InspectReturn
    \/ fetchManifest
    \/ fetchManifestEndpoint
    \/ fetchManifestExhausted
    \/ ListRemoteTags
    \/ ListRemoteTagsQualify
    \/ ListRemoteTagsReturn
    \/ getRemoteTagList
    \/ getRemoteTagListEndpoint
    \/ getRemoteTagListExhausted

Spec == Init /\ [][Next]_vars

(***************************************************************************)
(* One fetch on its own: Fetch has its session or its repository client    *)
(* and calls fetchWithSession(tag) or fetchWithRepository(ref).            *)
(***************************************************************************)
FetchInit ==
    /\ op = "Inspect"
    /\ scope = "call"
    /\ ref = [qualified |-> TRUE, index |-> ExplicitIndex, form |-> "plain"]
    /\ RegistryList = <<>>
    /\ Started
    /\ mf \in {"v1ManifestFetcher", "v2ManifestFetcher", "v1TagLister", "v2TagLister"}
    /\ fetchIn \in CASE mf = "v1ManifestFetcher" ->
                         [ref : FetchRefs \ {rf \in FetchRefs : rf.form = "digested"},
                          env : V1SessionEnvs]
                      [] mf = "v2ManifestFetcher" -> [ref : FetchRefs, env : V2RepositoryEnvs]
                      [] OTHER -> {NoInput}
    /\ fetched = NoFetch
    /\ listIn \in CASE mf = "v1TagLister" -> [repoInfo : RepoInfos, env : V1ListerEnvs]
                     [] mf = "v2TagLister" -> [repoInfo : RepoInfos, env : V2ListerEnvs]
                     [] OTHER -> {NoListInput}
    /\ listed = NoList
    /\ NoCalls

(* v1ManifestFetcher.Fetch from its call of fetchWithSession on *)
v1FetchWithSession ==
    /\ mf = "v1ManifestFetcher"
    /\ fetched = NoFetch
    /\ fetched' = fetchWithSession(fetchIn.ref.tag, fetchIn.env)
    /\ UNCHANGED <<mainVars, concVars, mf, fetchIn, listIn, listed>>

(* v2ManifestFetcher.Fetch; fetchWithRepository is the whole of it once    *)
(* NewV2Repository has answered a client                                   *)
v2FetchWithRepository ==
    /\ mf = "v2ManifestFetcher"
    /\ fetched = NoFetch
    /\ fetched' = v2ManifestFetcherFetch(fetchIn.ref, fetchIn.env)
    /\ UNCHANGED <<mainVars, concVars, mf, fetchIn, listIn, listed>>

(* getRemoteTagList with the lister of one V1 endpoint *)
v1ListTagsWithSession ==
    /\ mf = "v1TagLister"
    /\ listed = NoList
    /\ listed' = WithTagList(v1TagListerListTags(listIn.env), listIn.repoInfo)
    /\ UNCHANGED <<mainVars, concVars, mf, fetchIn, fetched, listIn>>

(* getRemoteTagList with the lister of one V2 endpoint *)
v2ListTagsWithRepository ==
    /\ mf = "v2TagLister"
    /\ listed = NoList
    /\ listed' = WithTagList(v2TagListerListTags(listIn.env), listIn.repoInfo)
    /\ UNCHANGED <<mainVars, concVars, mf, fetchIn, fetched, listIn>>

FetchNext ==
    \/ v1FetchWithSession
    \/ v2FetchWithRepository
    \/ v1ListTagsWithSession
    \/ v2ListTagsWithRepository

FetchSpec == FetchInit /\ [][FetchNext]_vars

(***************************************************************************)
(* Two calls at once.  Each is a call of Inspect or of ListRemoteTags with *)
(* a fully qualified reference; both are handed the same config, and so    *)
(* the same registry service.  A step of a call is one step of its         *)
(* fetchManifest / getRemoteTagList; the steps of the two interleave.      *)
(***************************************************************************)
Calls == {1, 2}

(* what Fetch / ListTags gives a call at an endpoint *)
Answers == {"ok", "fallback", "ErrNoSupport", "fatal"}
Answered(answer, index, pos, endpoint) ==
    CASE answer = "ok" -> Result(NewRec(index, pos, endpoint), FALSE, Nil, <<>>)
      [] answer = "fallback" -> Result(NilRec, TRUE, NewError("Fetch", index, pos), <<>>)
      [] answer = "ErrNoSupport" ->
           Result(NilRec, TRUE, NewErrNoSupport("Fetch", index, pos), <<>>)
      [] OTHER -> Result(NilRec, FALSE, NewError("Fetch", index, pos), <<>>)

(* the registry service: whether it resolves the repository and looks its  *)
(* endpoints up, and the endpoints it then hands out, a fresh slice to     *)
(* each call                                                               *)
Services ==
    [lookup : {"ok"}, endpoints : InspectEndpointLists]
    \cup [lookup : {"error"}, endpoints : {<<>>}]

(* a call: its entry point, the registry its reference names, what the     *)
(* endpoints of each version answer it, and its position                   *)
Frames ==
    [op : {"Inspect", "ListRemoteTags"}, index : {ExplicitIndex},
     answers : [{APIVersion1, APIVersion2} -> Answers],
     pc : {"call"}, endpoints : {<<>>}, i : {0}, ret : {NoRet}]

(* lastErr and discardNoSupportErrors as declared *)
Declared == [lastErr |-> Nil, discardNoSupportErrors |-> FALSE]

(* every call writing the variables of the first call's loop *)
VariablesOfFirst(c) == 1

(* the variables of the loop of call c: its own, declared in the body of   *)
(* the function it runs                                                    *)
VariablesOf(c) == c

(* one iteration of the endpoint loop of fetchManifest / getRemoteTagList  *)
(* at position k, with lastErr = last and discardNoSupportErrors = discard *)
Iterate(o, index, answers, endpoint, k, last, discard) ==
    LET made == IF o = "Inspect"
                THEN newManifestFetcher(endpoint, index, k).err
                ELSE newTagLister(endpoint, index, k).err
    IN  IF made # Nil
        THEN [next |-> "continue", lastErr |-> made, discardNoSupportErrors |-> discard,
              rec |-> NilRec, err |-> made]
        ELSE LET out == Answered(answers[endpoint.Version], index, k, endpoint)
                 saved == RememberError(last, discard, out.err)
                 next == IF o = "Inspect"
                         THEN fetchManifestNext(out, endpoint)
                         ELSE getRemoteTagListNext(out, endpoint)
             IN  IF next = "continue"
                 THEN [next |-> next, lastErr |-> saved.lastErr,
                       discardNoSupportErrors |-> saved.discardNoSupportErrors,
                       rec |-> NilRec, err |-> out.err]
                 ELSE [next |-> next, lastErr |-> last, discardNoSupportErrors |-> discard,
                       rec |-> IF next = "success" THEN out.rec ELSE NilRec,
                       err |-> IF next = "success" THEN Nil ELSE out.err]

(* the endpoint loop run from position k to its return, nothing else       *)
(* running                                                                 *)
RECURSIVE RunLoop(_, _, _, _, _, _, _)
RunLoop(o, index, answers, eps, k, last, discard) ==
    IF k > Len(eps)
    THEN [rec |-> NilRec, err |-> ExhaustedError(last, index)]
    ELSE LET it == Iterate(o, index, answers, eps[k], k, last, discard)
         IN  IF it.next = "continue"
             THEN RunLoop(o, index, answers, eps, k + 1, it.lastErr,
                          it.discardNoSupportErrors)
             ELSE [rec |-> it.rec, err |-> it.err]

(* fetchManifest / getRemoteTagList run alone against the service *)
RunAlone(o, index, answers, svc) ==
    IF svc.lookup # "ok"
    THEN [rec |-> NilRec, err |-> NewError("LookupPullEndpoints", index, 0)]
    ELSE LET eps == IF o = "Inspect" THEN svc.endpoints
                    ELSE CHOOSE l \in SortedByAPIVersion(svc.endpoints) : TRUE
         IN  RunLoop(o, index, answers, eps, 1, Nil, FALSE)

ConcurrentInit ==
    /\ op = "Inspect"
    /\ scope = "call"
    /\ ref = [qualified |-> TRUE, index |-> ExplicitIndex, form |-> "plain"]
    /\ RegistryList = <<>>
    /\ Started
    /\ mf = "none"
    /\ fetchIn = NoInput
    /\ fetched = NoFetch
    /\ listIn = NoListInput
    /\ listed = NoList
    /\ service \in Services
    /\ frames \in [Calls -> Frames]
    \* which of the two calls is called the first makes no difference
    /\ frames[1].op = "Inspect" \/ frames[2].op = "ListRemoteTags"
    /\ locals = [c \in Calls |-> Declared]

(* call c: fetchManifest / getRemoteTagList up to its endpoint loop *)
goLookup(c) ==
    /\ frames[c].pc = "call"
    /\ IF service.lookup # "ok"
       THEN /\ frames' = [frames EXCEPT ![c].pc = "done",
                                        ![c].ret = [rec |-> NilRec,
                                                    err |-> NewError("LookupPullEndpoints",
                                                                     frames[c].index, 0)]]
            /\ UNCHANGED locals
       ELSE /\ \E eps \in (IF frames[c].op = "Inspect" THEN {service.endpoints}
                            ELSE SortedByAPIVersion(service.endpoints)) :
                 frames' = [frames EXCEPT ![c].pc = "endpoints",
                                         ![c].endpoints = eps,
                                         ![c].i = 1]
            /\ locals' = [locals EXCEPT ![VariablesOf(c)] = Declared]
    /\ UNCHANGED <<mainVars, fetchVars, service>>

(* call c: one iteration of its endpoint loop *)
goEndpoint(c) ==
    /\ frames[c].pc = "endpoints"
    /\ frames[c].i <= Len(frames[c].endpoints)
    /\ LET f == frames[c]
           mine == locals[VariablesOf(c)]
           it == Iterate(f.op, f.index, f.answers, f.endpoints[f.i], f.i,
                         mine.lastErr, mine.discardNoSupportErrors)
       IN  IF it.next = "continue"
           THEN /\ locals' = [locals EXCEPT ![VariablesOf(c)] =
                                 [lastErr |-> it.lastErr,
                                  discardNoSupportErrors |-> it.discardNoSupportErrors]]
                /\ frames' = [frames EXCEPT ![c].i = @ + 1]
           ELSE /\ frames' = [frames EXCEPT ![c].pc = "done",
                                            ![c].ret = [rec |-> it.rec, err |-> it.err]]
                /\ UNCHANGED locals
    /\ UNCHANGED <<mainVars, fetchVars, service>>

(* call c: its endpoint loop ran out of endpoints *)
goExhausted(c) ==
    /\ frames[c].pc = "endpoints"
    /\ frames[c].i > Len(frames[c].endpoints)
    /\ LET mine == locals[VariablesOf(c)]
           e == ExhaustedError(mine.lastErr, frames[c].index)
       IN  /\ locals' = [locals EXCEPT ![VariablesOf(c)].lastErr = e]
           /\ frames' = [frames EXCEPT ![c].pc = "done",
                                       ![c].ret = [rec |-> NilRec, err |-> e]]
    /\ UNCHANGED <<mainVars, fetchVars, service>>

ConcurrentNext ==
    \E c \in Calls :
        \/ goLookup(c)
        \/ goEndpoint(c)
        \/ goExhausted(c)

ConcurrentSpec == ConcurrentInit /\ [][ConcurrentNext]_vars

(***************************************************************************)
(* Properties                                                              *)
(***************************************************************************)
Tried(n) == [k \in 1..n |-> k]
QualifyError(name) == NewError("FullyQualifyReferenceWith", name, 0)
Unqualified == ~IsReferenceFullyQualified(ref)

(* the record returned for the latest attempt: the fetcher's record as it  *)
(* is, the lister's record with its tags sorted                            *)
Produced == IF op = "ListRemoteTags" THEN SortTags(attempt.rec) ELSE attempt.rec

(* C1: in fetchManifest and getRemoteTagList the first endpoint whose      *)
(* Fetch / ListTags returns no error decides the result: its record is     *)
(* returned with a nil error, the loop is left, and the endpoints tried    *)
(* are exactly those up to it, none after it.                              *)
C1_FirstSuccessWins ==
    (attempt.built /\ attempt.err = Nil) =>
        /\ attempt.rec.index = fqr.index
        /\ attempt.rec.pos = attempt.pos
        /\ attempt.rec.Version = attempt.endpoint.Version
        /\ returned = [rec |-> Produced, err |-> Nil, how |-> "success"]
        /\ pc = "done"
        /\ ret = [rec |-> Produced, err |-> Nil]
        /\ tried = Tried(attempt.pos)
        /\ i = attempt.pos

(* a first endpoint succeeded while a second one was left untried *)
C1_Witness ==
    /\ attempt.built /\ attempt.err = Nil
    /\ attempt.pos = 1 /\ Len(endpoints) = 2
    /\ returned.how = "success"

(* an endpoint succeeded after an earlier one had failed *)
C1_WitnessAfterFailure ==
    /\ attempt.built /\ attempt.err = Nil
    /\ attempt.pos = 2 /\ lastErr # Nil
    /\ returned.how = "success"

(* C2: in fetchManifest a Fetch error with fallback = false stops the      *)
(* endpoint loop at once: that very error is returned with no record, no   *)
(* later endpoint is tried, and a remembered lastErr plays no part.        *)
C2_FatalStopsEndpoints ==
    (op = "Inspect" /\ attempt.built /\ attempt.err # Nil /\ ~attempt.fallback) =>
        /\ returned = [rec |-> NilRec, err |-> attempt.err, how |-> "abort"]
        /\ pc # "endpoints"
        /\ tried = Tried(attempt.pos)
        /\ i = attempt.pos

(* the second endpoint failed fatally after the first had left a lastErr *)
C2_Witness ==
    /\ op = "Inspect"
    /\ attempt.built /\ attempt.err # Nil /\ ~attempt.fallback
    /\ attempt.pos = 2
    /\ lastErr # Nil /\ lastErr # attempt.err
    /\ returned.err = attempt.err

(* C3 as stated: in getRemoteTagList a ListTags error with fallback =      *)
(* false aborts at once with that error, whatever the endpoint's version.  *)
C3_AnyVersionAborts ==
    (op = "ListRemoteTags" /\ attempt.built /\ attempt.err # Nil /\ ~attempt.fallback) =>
        /\ returned = [rec |-> NilRec, err |-> attempt.err, how |-> "abort"]
        /\ pc # "endpoints"
        /\ tried = Tried(attempt.pos)

(* C3, amended: in getRemoteTagList a ListTags error with fallback = false *)
(* aborts at once with that error when the failing endpoint is not a V1    *)
(* endpoint; from a V1 endpoint it is handled as a fallback error: it is   *)
(* remembered by the lastErr rule and the loop goes on.                    *)
C3_OnlyV2Aborts ==
    (op = "ListRemoteTags" /\ attempt.built /\ attempt.err # Nil /\ ~attempt.fallback) =>
        IF attempt.endpoint.Version = APIVersion1
        THEN /\ returned.how \in {"none", "exhausted"}
             /\ returned.how = "none" => (pc = "endpoints" /\ i = attempt.pos + 1)
             /\ (attempt.err.type # "ErrNoSupport" \/ ~discardNoSupportErrors)
                    => lastErr = attempt.err
             /\ attempt.err.type # "ErrNoSupport" => discardNoSupportErrors
        ELSE /\ returned = [rec |-> NilRec, err |-> attempt.err, how |-> "abort"]
             /\ pc # "endpoints"
             /\ tried = Tried(attempt.pos)
             /\ i = attempt.pos

(* a V1 lister failed without the fallback flag and the loop went on to    *)
(* the next endpoint                                                       *)
C3_Witness ==
    /\ op = "ListRemoteTags"
    /\ attempt.built /\ attempt.err # Nil /\ ~attempt.fallback
    /\ attempt.endpoint.Version = APIVersion1
    /\ pc = "endpoints" /\ i = 2 /\ Len(endpoints) = 2
    /\ lastErr = attempt.err

(* a V2 lister failed without the fallback flag and the call was aborted   *)
C3_WitnessV2 ==
    /\ op = "ListRemoteTags"
    /\ attempt.built /\ attempt.err # Nil /\ ~attempt.fallback
    /\ attempt.endpoint.Version = APIVersion2
    /\ returned.how = "abort"

C4_WitnessBefore ==
    /\ returned.how = "exhausted" /\ allFallback
    /\ Len(endpoints) = 2
    /\ lastReal # Nil /\ lastReal.pos = 2
    /\ returned.err = lastReal

(* C5: when the endpoints are exhausted the remembered error is returned;  *)
(* it is the generic "no endpoints found" error exactly when the endpoint  *)
(* list is empty, and otherwise an error raised for one of the endpoints.  *)
(* A single V2 endpoint failing with a fallback ErrNoSupport makes the     *)
(* call fail with that ErrNoSupport.                                       *)
C5_ExhaustedError ==
    returned.how = "exhausted" =>
        /\ returned.rec = NilRec
        /\ returned.err # Nil
        /\ returned.err = lastErr
        /\ (returned.err = NewError("no endpoints found", fqr.index, 0)) <=> (Len(endpoints) = 0)
        /\ Len(endpoints) > 0 =>
              /\ returned.err.pos \in 1..Len(endpoints)
              /\ tried = Tried(Len(endpoints))
        /\ (/\ Len(endpoints) = 1
            /\ attempt.endpoint.Version = APIVersion2
            /\ attempt.err.type = "ErrNoSupport"
            /\ attempt.fallback) => returned.err = attempt.err

(* the single V2 endpoint failed with a fallback ErrNoSupport *)
C5_Witness ==
    /\ returned.how = "exhausted"
    /\ Len(endpoints) = 1
    /\ attempt.endpoint.Version = APIVersion2
    /\ attempt.err.type = "ErrNoSupport" /\ attempt.fallback
    /\ returned.err = attempt.err

(* the endpoint list was empty *)
C5_WitnessEmpty ==
    /\ returned.how = "exhausted"
    /\ Len(endpoints) = 0
    /\ returned.err.msg = "no endpoints found"

OnlyV1(eps) == Len(eps) >= 1 /\ \A k \in 1..Len(eps) : eps[k].Version = APIVersion1

(* C6: Inspect of a digested reference on a registry whose endpoints are   *)
(* all V1 (at least one): every Fetch returns ErrNoSupport with fallback   *)
(* set before any collaborator is consulted, the loop never aborts, no     *)
(* record is returned and the resolution ends with ErrNoSupport.           *)
C6_DigestOnV1Only ==
    (op = "Inspect" /\ fqr.form = "digested" /\ OnlyV1(endpoints)) =>
        /\ returned.how \in {"none", "exhausted"}
        /\ returned.rec = NilRec
        /\ attempt # NoAttempt =>
              /\ attempt.built
              /\ attempt.err.type = "ErrNoSupport"
              /\ attempt.fallback
              /\ attempt.calls = <<>>
              /\ attempt.rec = NilRec
        /\ returned.how = "exhausted" =>
              /\ returned.err.type = "ErrNoSupport"
              /\ returned.err.pos = Len(endpoints)
        /\ (pc = "done" /\ ~Unqualified) =>
              (ret.rec = NilRec /\ ret.err.type = "ErrNoSupport")

(* two V1 endpoints were tried for a digested reference and the call ended *)
C6_Witness ==
    /\ op = "Inspect" /\ fqr.form = "digested" /\ OnlyV1(endpoints)
    /\ Len(endpoints) = 2
    /\ returned.how = "exhausted"
    /\ pc = "done"
    /\ ret.err.type = "ErrNoSupport"

(* C7: a fully qualified reference is resolved against exactly one         *)
(* registry, its own, and registry.RegistryList is never read.  For an     *)
(* unqualified reference the registries are taken in list order, each at   *)
(* most once, never more than the list holds, and none after the first     *)
(* one that resolved successfully.                                         *)
C7_RegistriesTouched ==
    /\ ~Unqualified =>
          /\ ~regListRead
          /\ r = 0
          /\ pc # "registries"
          /\ Len(candidates) = (IF pc = "call" THEN 0 ELSE 1)
          /\ \A k \in 1..Len(candidates) : candidates[k].index = ref.index
    /\ Unqualified =>
          /\ Len(candidates) <= Len(RegistryList)
          /\ \A k \in 1..Len(candidates) : candidates[k].index = RegistryList[k]
          /\ \A k \in 1..Len(candidates) :
                candidates[k].how = "success" =>
                    (k = Len(candidates) /\ pc = "done" /\ ret.err = Nil)
          /\ \A k \in 1..Len(candidates) :
                k < Len(candidates) => candidates[k].how \notin {"pending", "success"}

(* the first of two registries resolved the reference and the second was   *)
(* left alone                                                              *)
C7_Witness ==
    /\ Unqualified
    /\ Len(RegistryList) = 2
    /\ Len(candidates) = 1 /\ candidates[1].how = "success"
    /\ pc = "done"

(* a fully qualified reference was resolved while registries are configured *)
C7_WitnessQualified ==
    /\ ~Unqualified
    /\ Len(RegistryList) = 2
    /\ pc = "done" /\ ret.err = Nil /\ ret.rec.index = ref.index

(* C8: a reference that cannot be qualified against one registry does not  *)
(* end the call: the error is kept in err and the loop turns to the next   *)
(* registry.  When qualification fails for the first of two registries and *)
(* the second resolves, the second registry's record is returned with a    *)
(* nil error.                                                              *)
C8_QualifyFailureNotFatal ==
    Unqualified =>
        /\ \A k \in 1..Len(candidates) :
              candidates[k].how = "FullyQualifyReferenceWith" =>
                  /\ (k = Len(candidates) /\ pc # "done") =>
                        (pc = "registries" /\ r = k + 1 /\ err = QualifyError(RegistryList[k]))
                  /\ (pc = "done" /\ k < Len(RegistryList)) => Len(candidates) > k
        /\ (/\ pc = "done"
            /\ Len(candidates) = 2
            /\ candidates[1].how = "FullyQualifyReferenceWith"
            /\ candidates[2].how = "success") =>
                  /\ ret = [rec |-> returned.rec, err |-> Nil]
                  /\ ret.rec # NilRec
                  /\ ret.rec.index = RegistryList[2]

(* qualification failed for the first registry, the second one resolved    *)
C8_Witness ==
    /\ Unqualified
    /\ pc = "done"
    /\ Len(candidates) = 2
    /\ candidates[1].how = "FullyQualifyReferenceWith"
    /\ candidates[2].how = "success"
    /\ ret.err = Nil /\ ret.rec.index = RegistryList[2]

(* C9: when an unqualified reference resolves with no registry, the error  *)
(* returned is the one of the last registry processed: its qualification   *)
(* error or the error its fetchManifest / getRemoteTagList returned.       *)
C9_LastCandidateError ==
    (Unqualified /\ pc = "done" /\ ret.err # Nil /\ Len(candidates) > 0) =>
        /\ Len(candidates) = Len(RegistryList)
        /\ ret.rec = NilRec
        /\ ret.err.index = Last(candidates).index
        /\ ret.err = IF Last(candidates).how = "FullyQualifyReferenceWith"
                     THEN QualifyError(Last(candidates).index)
                     ELSE returned.err

(* both registries failed, each with its own error; the second is returned *)
C9_Witness ==
    /\ Unqualified /\ pc = "done"
    /\ Len(candidates) = 2
    /\ candidates[1].how = "exhausted"
    /\ candidates[2].how = "abort"
    /\ ret.err = returned.err /\ ret.err.index = RegistryList[2]

(* the fatal outcomes of a resolution: a Fetch error without the fallback  *)
(* flag, a repository name that does not validate                          *)
Fatal == {"abort", "validateRepoName"}

(* C10 as stated: a fatal error raised for one registry ends Inspect: no   *)
(* later registry is qualified or contacted and that error is returned.    *)
C10_FatalEndsInspect ==
    (op = "Inspect" /\ Unqualified) =>
        \A k \in 1..Len(candidates) :
            candidates[k].how \in Fatal =>
                /\ k = Len(candidates)
                /\ pc = "done" => ret = [rec |-> NilRec, err |-> returned.err]

(* C10, amended: a fatal error raised for one registry ends the resolution *)
(* of that registry only: none of its further endpoints is tried, Inspect  *)
(* goes on to the next registry of the list, and the fatal error is the    *)
(* one returned only when its registry is the last of the list.            *)
C10_FatalEndsCandidate ==
    (op = "Inspect" /\ Unqualified) =>
        \A k \in 1..Len(candidates) :
            candidates[k].how \in Fatal =>
                /\ k = Len(candidates) =>
                      /\ pc \in {"registries", "done"}
                      /\ returned.how = candidates[k].how
                      /\ returned.how = "abort" =>
                            (returned.err = attempt.err /\ tried = Tried(attempt.pos))
                      /\ returned.how = "validateRepoName" => tried = <<>>
                /\ (k = Len(candidates) /\ k < Len(RegistryList)) =>
                      (pc = "registries" /\ r = k + 1)
                /\ (pc = "done" /\ k < Len(RegistryList)) => Len(candidates) > k
                /\ (pc = "done" /\ k < Len(candidates)) =>
                      (ret.err = Nil \/ ret.err.index # candidates[k].index)
                /\ (pc = "done" /\ k = Len(RegistryList)) =>
                      ret = [rec |-> NilRec, err |-> returned.err]

(* the first registry failed fatally, the second was tried and resolved    *)
C10_Witness ==
    /\ op = "Inspect" /\ Unqualified
    /\ pc = "done"
    /\ Len(candidates) = 2
    /\ candidates[1].how = "abort"
    /\ candidates[2].how = "success"
    /\ ret.err = Nil /\ ret.rec.index = RegistryList[2]

(* C11: in Inspect a NotFound answer of a V1 endpoint ends the resolution  *)
(* of that registry: the error is returned as it is, no other endpoint of  *)
(* the registry is tried after it, and for an unqualified reference the    *)
(* registry loop turns to the next registry of the list.                   *)
C11_NotFoundTerminal ==
    (op = "Inspect" /\ attempt.built /\ attempt.err.msg = "not found") =>
        /\ attempt.endpoint.Version = APIVersion1
        /\ returned = [rec |-> NilRec, err |-> attempt.err, how |-> "abort"]
        /\ pc # "endpoints"
        /\ tried = Tried(attempt.pos)
        /\ i = attempt.pos
        /\ Unqualified =>
              /\ Last(candidates).how = "abort"
              /\ err = attempt.err
              /\ Len(candidates) < Len(RegistryList) =>
                    (pc = "registries" /\ r = Len(candidates) + 1)

(* the first of two endpoints of the first registry answered NotFound: the *)
(* second endpoint is left alone and the second registry is up next        *)
C11_Witness ==
    /\ op = "Inspect" /\ Unqualified
    /\ attempt.built /\ attempt.err.msg = "not found"
    /\ attempt.pos = 1 /\ Len(endpoints) = 2
    /\ Len(candidates) = 1 /\ Len(RegistryList) = 2
    /\ pc = "registries" /\ r = 2

TransportCalls == {"TLSConfig", "ToV1Endpoint", "NewSession", "NewV2Repository"}

(* the latest attempt failed in one of the calls of cs with an error that  *)
(* is no ErrNoSupport                                                      *)
FailedIn(cs) ==
    /\ attempt.built
    /\ attempt.err.type = "error"
    /\ attempt.calls # <<>>
    /\ Last(attempt.calls) \in cs

(* the loop went on past the latest attempt with its error remembered as   *)
(* lastErr and ErrNoSupport errors discarded from then on                  *)
WentOnRemembered ==
    /\ returned.how \in {"none", "exhausted"}
    /\ returned.how = "none" => (pc = "endpoints" /\ i = attempt.pos + 1)
    /\ lastErr = attempt.err
    /\ discardNoSupportErrors

(* C12 as stated: a failure of the TLS configuration, the V1 endpoint, the *)
(* V1 session or the V2 repository client makes the loop go on to the next *)
(* endpoint, in Inspect and in ListRemoteTags, remembered as lastErr.      *)
C12_TransportFallsBack ==
    FailedIn(TransportCalls) => WentOnRemembered

(* C12, amended: a failure of the V1 endpoint, the V1 session or the V2    *)
(* repository client is a fallback error and the loop goes on, remembering *)
(* it with priority over ErrNoSupport.  A failure of the TLS configuration *)
(* comes without the fallback flag: Inspect returns it at once, and        *)
(* ListRemoteTags goes on because the endpoint is a V1 endpoint.           *)
C12_TransportButTLSFallsBack ==
    /\ FailedIn(TransportCalls \ {"TLSConfig"}) => (attempt.fallback /\ WentOnRemembered)
    /\ FailedIn({"TLSConfig"}) =>
          /\ ~attempt.fallback
          /\ attempt.endpoint.Version = APIVersion1
          /\ op = "Inspect" =>
                /\ returned = [rec |-> NilRec, err |-> attempt.err, how |-> "abort"]
                /\ tried = Tried(attempt.pos)
                /\ i = attempt.pos
          /\ op = "ListRemoteTags" => WentOnRemembered

(* a V2 repository client failed after an ErrNoSupport had been remembered *)
(* and the loop went on with the failure as lastErr                        *)
C12_Witness ==
    /\ FailedIn({"NewV2Repository"})
    /\ attempt.pos = 2 /\ Len(endpoints) = 2
    /\ pc = "endpoints" /\ i = 3
    /\ lastErr = attempt.err

(* the TLS configuration failed in Inspect with a second endpoint untried  *)
C12_WitnessTLS ==
    /\ op = "Inspect"
    /\ FailedIn({"TLSConfig"})
    /\ attempt.pos = 1 /\ Len(endpoints) = 2
    /\ returned.how = "abort"

(* no V1 endpoint after a V2 endpoint and, among endpoints of one version, *)
(* no "https://" endpoint after one of another scheme                      *)
VersionSorted(s) ==
    \A j, k \in 1..Len(s) :
        j < k =>
            /\ ~(s[j].Version = APIVersion2 /\ s[k].Version = APIVersion1)
            /\ (s[j].Version = s[k].Version /\ s[k].secure) => s[j].secure

Occurrences(s, e) == Cardinality({k \in 1..Len(s) : s[k] = e})

(* C14: getRemoteTagList ranges over a permutation of the list returned by *)
(* LookupPullEndpoints with every V1 endpoint before every V2 endpoint     *)
(* and, among endpoints of equal version, the "https://" ones first; the   *)
(* endpoints are attempted in that order.                                  *)
C14_EndpointsSorted ==
    op = "ListRemoteTags" =>
        /\ Len(endpoints) = Len(looked)
        /\ \A e \in Endpoints : Occurrences(endpoints, e) = Occurrences(looked, e)
        /\ VersionSorted(endpoints)
        /\ tried = Tried(Len(tried))
        /\ attempt # NoAttempt => attempt.endpoint = endpoints[attempt.pos]

(* a V2 endpoint was returned before a V1 endpoint and the V1 endpoint was *)
(* attempted first                                                         *)
C14_Witness ==
    /\ op = "ListRemoteTags"
    /\ Len(looked) = 2
    /\ looked[1].Version = APIVersion2 /\ looked[2].Version = APIVersion1
    /\ attempt.pos = 1 /\ attempt.endpoint = looked[2]

(* of two V2 endpoints the "https://" one was returned last and attempted  *)
(* first                                                                   *)
C14_WitnessScheme ==
    /\ op = "ListRemoteTags"
    /\ Len(looked) = 2
    /\ looked[1].Version = APIVersion2 /\ looked[2].Version = APIVersion2
    /\ ~looked[1].secure /\ looked[2].secure
    /\ attempt.pos = 1 /\ attempt.endpoint = looked[2]

(* the endpoints are taken one at a time, each once, in the order of the   *)
(* list ranged over: the list as returned for Inspect, sorted for          *)
(* ListRemoteTags                                                          *)
InOrder ==
    /\ tried = Tried(Len(tried))
    /\ Len(tried) <= Len(endpoints)
    /\ pc = "endpoints" => i = Len(tried) + 1
    /\ attempt # NoAttempt =>
          (attempt.pos = Len(tried) /\ attempt.endpoint = endpoints[attempt.pos])
    /\ op = "Inspect" => endpoints = looked
    /\ op = "ListRemoteTags" =>
          /\ Len(endpoints) = Len(looked)
          /\ \A e \in Endpoints : Occurrences(endpoints, e) = Occurrences(looked, e)
          /\ VersionSorted(endpoints)

(* C15 as stated: the endpoints are attempted one at a time, each at most  *)
(* once, in the order returned (Inspect) or sorted (ListRemoteTags), and   *)
(* the next attempt starts only after a Fetch / ListTags that returned a   *)
(* fallback error.                                                         *)
C15_NextAfterFallbackOnly ==
    /\ InOrder
    /\ (pc = "endpoints" /\ i <= Len(endpoints) /\ attempt.built) =>
          (attempt.err # Nil /\ attempt.fallback)

(* C15, amended: the same order, and the next attempt starts only after an *)
(* attempt that ended with an error the loop goes on from: a fallback      *)
(* error, any error of a V1 endpoint in ListRemoteTags, or an endpoint of  *)
(* unknown version, which is passed over without a Fetch / ListTags.       *)
C15_NextAfterContinueOnly ==
    /\ InOrder
    /\ (pc = "endpoints" /\ attempt # NoAttempt) =>
          /\ attempt.err # Nil
          /\ \/ ~attempt.built
             \/ attempt.fallback
             \/ op = "ListRemoteTags" /\ attempt.endpoint.Version = APIVersion1

(* Inspect is about to attempt a V1 endpoint returned after a V2 endpoint  *)
(* that failed with a fallback error                                       *)
C15_Witness ==
    /\ op = "Inspect"
    /\ Len(looked) = 2
    /\ looked[1].Version = APIVersion2 /\ looked[2].Version = APIVersion1
    /\ attempt.built /\ attempt.pos = 1 /\ attempt.endpoint = looked[1]
    /\ attempt.fallback
    /\ pc = "endpoints" /\ i = 2

(* ListRemoteTags is about to attempt the second endpoint after a V1       *)
(* endpoint failed without the fallback flag                               *)
C15_WitnessV1 ==
    /\ op = "ListRemoteTags"
    /\ attempt.built /\ attempt.pos = 1 /\ ~attempt.fallback
    /\ attempt.endpoint.Version = APIVersion1
    /\ pc = "endpoints" /\ i = 2 /\ Len(endpoints) = 2

(* C13: whenever ListRemoteTags succeeds the tags returned are the tags    *)
(* the lister gave, in non-decreasing order of tag name, whichever         *)
(* protocol served them, in whatever order, from whatever position of the  *)
(* endpoint list.                                                          *)
C13_TagListSorted ==
    (op = "ListRemoteTags" /\ pc = "done" /\ ret.err = Nil) =>
        /\ attempt.built /\ attempt.err = Nil
        /\ ret.rec # NilRec
        /\ Len(ret.rec.TagList) = Len(attempt.rec.TagList)
        /\ \A t \in Tags :
              Occurrences(ret.rec.TagList, t) = Occurrences(attempt.rec.TagList, t)
        /\ \A j, k \in 1..Len(ret.rec.TagList) :
              j < k => ret.rec.TagList[j] <= ret.rec.TagList[k]

(* a V2 endpoint at the second position gave three tags in decreasing      *)
(* order                                                                   *)
C13_Witness ==
    /\ op = "ListRemoteTags" /\ pc = "done" /\ ret.err = Nil
    /\ attempt.pos = 2 /\ attempt.endpoint.Version = APIVersion2
    /\ attempt.rec.TagList = <<3, 2, 1>>
    /\ ret.rec.TagList = <<1, 2, 3>>

(* a V1 endpoint at the first position gave its tags out of order          *)
C13_WitnessV1 ==
    /\ op = "ListRemoteTags" /\ pc = "done" /\ ret.err = Nil
    /\ attempt.pos = 1 /\ attempt.endpoint.Version = APIVersion1
    /\ attempt.rec.TagList = <<2, 3, 1>>
    /\ ret.rec.TagList = <<1, 2, 3>>

(* C22: called with an unqualified reference while no registry is          *)
(* configured, Inspect and ListRemoteTags return in their first step, no   *)
(* record and the error "No configured registry to pull from.", whatever   *)
(* the name is; no registry is qualified, resolved or looked up and no     *)
(* endpoint is attempted.                                                  *)
C22_NoRegistryFailsAtOnce ==
    (Unqualified /\ RegistryList = <<>> /\ pc # "call") =>
        /\ pc = "done"
        /\ ret = [rec |-> NilRec,
                  err |-> NewError("No configured registry to pull from.", 0, 0)]
        /\ candidates = <<>>
        /\ returned = NoReturn
        /\ looked = <<>> /\ endpoints = <<>>
        /\ tried = <<>> /\ attempt = NoAttempt

(* ListRemoteTags returned so *)
C22_Witness ==
    /\ op = "ListRemoteTags" /\ Unqualified /\ RegistryList = <<>>
    /\ pc = "done"
    /\ ret.err.msg = "No configured registry to pull from."

(* Inspect returned so *)
C22_WitnessInspect ==
    /\ op = "Inspect" /\ Unqualified /\ RegistryList = <<>>
    /\ pc = "done"
    /\ ret.err.msg = "No configured registry to pull from."

(* C24: once lastErr holds an error that is no ErrNoSupport, be it the     *)
(* "unknown version" error of newManifestFetcher / newTagLister, no step   *)
(* of the endpoint loop puts an ErrNoSupport in its place.                 *)
C24_RealErrorKept ==
    [][lastErr.type = "error" => lastErr'.type # "ErrNoSupport"]_vars

(* C25: at the head of the endpoint loop of fetchManifest and of           *)
(* getRemoteTagList: before the first endpoint discardNoSupportErrors is   *)
(* false and lastErr nil; while discardNoSupportErrors is true lastErr is  *)
(* an error that is no ErrNoSupport; after a failed attempt lastErr is not *)
(* nil; and no step of the loop sets discardNoSupportErrors back to false. *)
C25_LoopInvariant ==
    /\ [](pc = "endpoints" =>
            /\ tried = <<>> => (~discardNoSupportErrors /\ lastErr = Nil)
            /\ discardNoSupportErrors => lastErr.type = "error"
            /\ tried # <<>> => (attempt.err # Nil /\ lastErr # Nil))
    /\ [][(pc = "endpoints" /\ discardNoSupportErrors) => discardNoSupportErrors']_vars

(* an ErrNoSupport met with discardNoSupportErrors set: lastErr is still   *)
(* the earlier error                                                       *)
C25_Witness ==
    /\ pc = "endpoints"
    /\ discardNoSupportErrors
    /\ attempt.err.type = "ErrNoSupport" /\ attempt.pos = 2
    /\ lastErr.type = "error" /\ lastErr.pos = 1

(* only ErrNoSupport errors so far: the flag is false and lastErr is the   *)
(* latest of them                                                          *)
C25_WitnessNoSupport ==
    /\ pc = "endpoints"
    /\ ~discardNoSupportErrors
    /\ attempt.pos = 2
    /\ lastErr = attempt.err /\ lastErr.type = "ErrNoSupport"

(* C31: Inspect and ListRemoteTags, and fetchManifest and getRemoteTagList *)
(* under them, return either a record and a nil error or a nil record and  *)
(* an error: never a record together with an error, never nil with nil.    *)
C31_RecordOrError ==
    /\ pc = "done" => ((ret.rec # NilRec) <=> (ret.err = Nil))
    /\ returned # NoReturn => ((returned.rec # NilRec) <=> (returned.err = Nil))
    /\ (pc = "registries" /\ r > 1) => (imageInspect = NilRec /\ err # Nil)

(* the registry loop ran out after an endpoint of its last registry had    *)
(* failed: nil and the error come back                                     *)
C31_Witness ==
    /\ pc = "done" /\ ~IsReferenceFullyQualified(ref)
    /\ r > Len(RegistryList)
    /\ tried # <<>> /\ attempt.built /\ attempt.err # Nil
    /\ ret.rec = NilRec /\ ret.err = attempt.err

(* a list came back from the second endpoint after the first had failed *)
C31_WitnessRecord ==
    /\ pc = "done" /\ op = "ListRemoteTags"
    /\ Len(tried) = 2
    /\ ret.err = Nil /\ ret.rec # NilRec /\ ret.rec.pos = 2
    /\ lastErr # Nil

(***************************************************************************)
(* Properties of one fetch, checked under FetchSpec.                       *)
(***************************************************************************)

(* fetchWithRepository was called and returned *)
V2Fetched == mf = "v2ManifestFetcher" /\ fetched # NoFetch /\ fetchIn.env.repo = "ok"

(* fetchWithSession was called and returned *)
V1Fetched == mf = "v1ManifestFetcher" /\ fetched # NoFetch

(* the manifest fetches among the calls made *)
ManifestGets == {k \in 1..Len(fetched.calls) : fetched.calls[k] \in {"Get", "GetByTag"}}

(* C16: a V2 fetch of a reference with neither tag nor digest, once the    *)
(* tags are enumerated, takes "latest" if it occurs anywhere in the list,  *)
(* otherwise the first element of the list as enumerated, and fetches the  *)
(* manifest by that tag; on an empty list it fails with "No tags           *)
(* available", returns no record and fetches no manifest.                  *)
C16_V2TagFromEnumeration ==
    (V2Fetched /\ fetchIn.ref.form = "plain" /\ fetchIn.env.manifests = "ok"
       /\ ~fetchIn.env.tagsErr) =>
        LET tl == fetchIn.env.tagList
        IN  /\ DefaultTag \in Range(tl) => fetched.tag = DefaultTag
            /\ (DefaultTag \notin Range(tl) /\ Len(tl) > 0) => fetched.tag = tl[1]
            /\ Len(tl) > 0 => fetched.calls = <<"Manifests", "Tags", "GetByTag">>
            /\ Len(tl) = 0 => /\ fetched.err.msg = "No tags available"
                              /\ fetched.rec = NilInspect
                              /\ ManifestGets = {}

(* a list whose first element is neither "latest" nor the least by name    *)
(* resolved to its first element, and the record tagged with it            *)
C16_Witness ==
    /\ V2Fetched /\ fetchIn.ref.form = "plain"
    /\ fetchIn.env.tagList = <<3, 1>>
    /\ fetched.tag = 3
    /\ fetched.err = NoErr
    /\ fetched.rec.RepoTags = <<3>>

(* "latest" last in the list is still the tag chosen *)
C16_WitnessLatest ==
    /\ V2Fetched /\ fetchIn.ref.form = "plain"
    /\ fetchIn.env.tagList = <<3, 1, DefaultTag>>
    /\ fetched.tag = DefaultTag
    /\ fetched.err = NoErr

(* the empty enumeration *)
C16_WitnessEmpty ==
    /\ V2Fetched /\ fetchIn.ref.form = "plain"
    /\ fetchIn.env.tagList = <<>>
    /\ fetched.err.msg = "No tags available"

(* the existence check and the manifest fetch that go with a reference *)
ExistsCall(fref) == IF fref.form = "digested" THEN "Exists" ELSE "ExistsByTag"
GetCall(fref) == IF fref.form = "digested" THEN "Get" ELSE "GetByTag"

C17_WitnessTag ==
    /\ V2Fetched /\ fetchIn.ref.form = "tagged"
    /\ fetchIn.env.exists = "yes"
    /\ fetched.calls = <<"Manifests", "ExistsByTag", "GetByTag">>
    /\ fetched.rec.made

(* the check by digest failing *)
C17_WitnessError ==
    /\ V2Fetched /\ fetchIn.ref.form = "digested"
    /\ fetchIn.env.exists = "error"
    /\ fetched.err = Err("Exists")

(* the image JSON pulls among the calls made *)
Pulls == {k \in 1..Len(fetched.calls) : fetched.calls[k] \notin {"GetRepositoryData", "GetRemoteTags"}}

C18_WitnessLatest ==
    /\ V1Fetched /\ fetchIn.ref.tag = NoTag
    /\ fetchIn.env.tagsList = <<1, DefaultTag>>
    /\ fetched.tag = DefaultTag
    /\ fetched.err = NoErr

(* a requested tag that is not a key of the map *)
C18_WitnessNotFound ==
    /\ V1Fetched /\ fetchIn.ref.tag = 3
    /\ fetchIn.env.tagsList = <<1, DefaultTag>>
    /\ fetched.err.msg = "Tag not found"

(* every place the image JSON can be pulled from, mirrors first, and what  *)
(* each answers                                                            *)
Places ==
    LET m == Len(fetchIn.env.mirrors)
        n == Len(fetchIn.env.endpoints)
    IN  [k \in 1..(m + n) |-> IF k <= m THEN <<"mirror", k>> ELSE <<"endpoint", k - m>>]
PlaceAnswers == fetchIn.env.mirrors \o fetchIn.env.endpoints

(* the first place that answers with an image, 0 if none does *)
FirstSuccess ==
    IF \E k \in 1..Len(PlaceAnswers) : PlaceAnswers[k]
    THEN CHOOSE k \in 1..Len(PlaceAnswers) :
             PlaceAnswers[k] /\ \A j \in 1..(k - 1) : ~PlaceAnswers[j]
    ELSE 0

(* the places contacted, in the order contacted *)
Contacted == SubSeq(fetched.calls, 3, Len(fetched.calls))

(* the fetch resolved its tag and went on to pull the image JSON *)
V1Pulling ==
    /\ V1Fetched /\ fetchIn.env.repoData = "ok" /\ ~fetchIn.env.tagsErr
    /\ fetched.err.msg \notin {"No tags available", "Tag not found"}

(* C19: the image JSON is pulled from the mirrors in order, then from the  *)
(* repository endpoints in order, up to and including the first place that *)
(* answers with an image and no further.  If some place answers, the fetch *)
(* succeeds with that image and no error, whatever failed before; if every *)
(* place fails, the error wraps the cause met at the last place.           *)
C19_MirrorsThenEndpoints ==
    V1Pulling =>
        /\ Contacted = SubSeq(Places, 1, IF FirstSuccess = 0 THEN Len(Places) ELSE FirstSuccess)
        /\ FirstSuccess # 0 =>
              /\ fetched.err = NoErr
              /\ fetched.rec.made
              /\ fetched.rec.img = Places[FirstSuccess]
        /\ (FirstSuccess = 0 /\ Len(Places) > 0) =>
              /\ fetched.err.msg = "Error pulling image"
              /\ fetched.err.cause = Places[Len(Places)]
              /\ fetched.rec = NilInspect

(* both mirrors and the first endpoint fail, the second endpoint answers *)
C19_Witness ==
    /\ V1Pulling
    /\ fetchIn.env.mirrors = <<FALSE, FALSE>>
    /\ fetchIn.env.endpoints = <<FALSE, TRUE>>
    /\ Len(Contacted) = 4
    /\ fetched.err = NoErr
    /\ fetched.rec.img = <<"endpoint", 2>>

(* the second mirror answers: no endpoint is contacted *)
C19_WitnessMirror ==
    /\ V1Pulling
    /\ fetchIn.env.mirrors = <<FALSE, TRUE>>
    /\ fetchIn.env.endpoints = <<TRUE, TRUE>>
    /\ Contacted = <<<<"mirror", 1>>, <<"mirror", 2>>>>
    /\ fetched.err = NoErr

(* every place fails *)
C19_WitnessAllFail ==
    /\ V1Pulling
    /\ fetchIn.env.mirrors = <<FALSE>>
    /\ fetchIn.env.endpoints = <<FALSE, FALSE>>
    /\ fetched.err = [msg |-> "Error pulling image", cause |-> <<"endpoint", 2>>]

(* C20: a record made by makeRemoteImageInspect has at most one RepoTags   *)
(* entry and at most one RepoDigests entry.  RepoTags holds the resolved   *)
(* tag, and only when a tag was resolved: it is empty for a V2 fetch by    *)
(* digest.  RepoDigests holds the manifest digest, and only when that      *)
(* digest is valid: it is empty for every V1 fetch.                        *)
C20_AtMostOneTagAndDigest ==
    (fetched # NoFetch /\ fetched.rec.made) =>
        LET rec == fetched.rec
        IN  /\ Len(rec.RepoTags) \in {0, 1}
            /\ Len(rec.RepoDigests) \in {0, 1}
            /\ rec.RepoTags # <<>> => (fetched.tag # NoTag /\ rec.RepoTags = <<fetched.tag>>)
            /\ (fetched.tag # NoTag /\ fetchIn.env.withTag) => rec.RepoTags = <<fetched.tag>>
            /\ (mf = "v2ManifestFetcher" /\ fetchIn.ref.form = "digested") => rec.RepoTags = <<>>
            /\ rec.RepoDigests # <<>> =>
                  /\ mf = "v2ManifestFetcher"
                  /\ Validate(fetchIn.env.dgst)
                  /\ rec.RepoDigests = <<fetchIn.env.dgst>>
            /\ (mf = "v2ManifestFetcher" /\ Validate(fetchIn.env.dgst)) =>
                  rec.RepoDigests = <<fetchIn.env.dgst>>
            /\ mf = "v1ManifestFetcher" => rec.RepoDigests = <<>>

(* a V2 fetch by digest: no tag entry, one digest entry *)
C20_Witness ==
    /\ V2Fetched /\ fetchIn.ref.form = "digested"
    /\ fetched.rec.made
    /\ fetched.rec.RepoTags = <<>>
    /\ fetched.rec.RepoDigests = <<"sha256:0a">>

(* a V1 fetch: one tag entry, no digest entry *)
C20_WitnessV1 ==
    /\ V1Fetched
    /\ fetched.rec.made
    /\ fetched.rec.RepoTags = <<DefaultTag>>
    /\ fetched.rec.RepoDigests = <<>>

(* a V2 fetch by tag whose manifest digest is not valid, and whose tag the *)
(* canonical name does not take: both lists empty                          *)
C20_WitnessNeither ==
    /\ V2Fetched /\ fetchIn.ref.form = "tagged"
    /\ fetched.rec.made
    /\ fetched.rec.RepoTags = <<>>
    /\ fetched.rec.RepoDigests = <<>>

(* fetchWithRepository fetched a manifest *)
GotManifest ==
    /\ V2Fetched
    /\ ManifestGets # {}
    /\ fetchIn.env.get = "manifest"

(* C23: a V2 fetch whose manifest has a number of history entries other    *)
(* than its number of layers fails with a validation error, that of the    *)
(* counts if the signature and reference checks pass; no history entry is  *)
(* built and no record is returned.                                        *)
C23_CountMismatchFailsFirst ==
    (GotManifest /\ Len(fetchIn.env.manifest.FSLayers) # Len(fetchIn.env.manifest.History)) =>
        /\ fetched.err.msg \in {"verifyManifest",
                                "length of history not equal to number of layers"}
        /\ fetchIn.env.verify = "ok" =>
              fetched.err.msg = "length of history not equal to number of layers"
        /\ fetched.history = <<>>
        /\ fetched.rec = NilInspect

(* two layers, one history entry that would decode *)
C23_Witness ==
    /\ GotManifest
    /\ Len(fetchIn.env.manifest.FSLayers) = 2
    /\ Len(fetchIn.env.manifest.History) = 1
    /\ fetchIn.env.manifest.History[1].kind = "plain"
    /\ fetchIn.env.fix = "ok" /\ fetchIn.env.process = "ok"
    /\ fetched.err.msg = "length of history not equal to number of layers"
    /\ fetched.history = <<>>

(* one layer, two history entries *)
C23_WitnessMoreHistory ==
    /\ GotManifest
    /\ Len(fetchIn.env.manifest.FSLayers) = 1
    /\ Len(fetchIn.env.manifest.History) = 2
    /\ fetched.err.msg = "length of history not equal to number of layers"

(* one Fetch / ListTags call of a V2 endpoint has returned *)
V2FetchReturned == mf = "v2ManifestFetcher" /\ fetched # NoFetch
V2ListReturned == mf = "v2TagLister" /\ listed # NoList
V1ListReturned == mf = "v1TagLister" /\ listed # NoList

(* C26: V2 Fetch and V2 ListTags set the fallback flag alike: when          *)
(* NewV2Repository fails they return its error with fallback set; when the *)
(* repository-level operation fails, fallback is set exactly when          *)
(* registry.ContinueOnError holds for the error returned; on success       *)
(* fallback is false and the error is nil.                                 *)
C26_FallbackFlag ==
    /\ V2FetchReturned =>
          /\ fetchIn.env.repo # "ok" =>
                /\ fetched.fallback
                /\ fetched.err = Err("NewV2Repository")
                /\ ~fetched.rec.made
          /\ (fetchIn.env.repo = "ok" /\ fetched.err # NoErr) =>
                (fetched.fallback <=> fetchIn.env.cont)
          /\ fetched.rec.made => (~fetched.fallback /\ fetched.err = NoErr)
          /\ fetched.err = NoErr => fetched.rec.made
    /\ V2ListReturned =>
          /\ listIn.env.repo # "ok" =>
                /\ listed.fallback
                /\ listed.err = ListErr("NewV2Repository")
                /\ listed.tagList = NilTagList
          /\ (listIn.env.repo = "ok" /\ listed.err # NoListErr) =>
                (listed.fallback <=> listed.err \in listIn.env.cont)
          /\ listed.err = NoListErr => (~listed.fallback /\ listed.tagList # NilTagList)

(* fetchWithRepository failed with an error ContinueOnError holds for *)
C26_Witness ==
    /\ V2FetchReturned /\ fetchIn.env.repo = "ok"
    /\ fetched.err = Err("Tag does not exist")
    /\ fetchIn.env.cont /\ fetched.fallback

(* listTagsWithRepository failed with an error it does not hold for *)
C26_WitnessFatal ==
    /\ V2ListReturned /\ listIn.env.repo = "ok"
    /\ listed.err = ListErr("Manifests")
    /\ listed.err \notin listIn.env.cont /\ ~listed.fallback

(* NewV2Repository failed although ContinueOnError would not hold *)
C26_WitnessNoClient ==
    /\ V2FetchReturned /\ fetchIn.env.repo # "ok"
    /\ ~fetchIn.env.cont /\ fetched.fallback

(* C27: when the tag enumeration of a V2 endpoint fails with a multi-error *)
(* value of exactly one element, that element is the error returned and    *)
(* the one classified for fallback; any other error of the enumeration, a  *)
(* multi-error value of no or of two or more elements included, is         *)
(* returned as it came.                                                    *)
C27_SingleErrorUnwrapped ==
    (/\ V2ListReturned /\ listIn.env.repo = "ok" /\ listIn.env.manifests = "ok"
     /\ listIn.env.tagsErr # NoListErr) =>
        LET e == listIn.env.tagsErr
            returnedErr == IF e.type = "Errors" /\ Len(e.elems) = 1 THEN e.elems[1] ELSE e
        IN  /\ listed.err = returnedErr
            /\ listed.fallback <=> returnedErr \in listIn.env.cont
            /\ listed.list = <<>>

(* one element: ContinueOnError holds for the slice, not for its element *)
C27_Witness ==
    /\ V2ListReturned /\ listIn.env.repo = "ok" /\ listIn.env.manifests = "ok"
    /\ listIn.env.tagsErr = Errors(1)
    /\ Errors(1) \in listIn.env.cont /\ ErrorCode(1) \notin listIn.env.cont
    /\ listed.err = ErrorCode(1) /\ ~listed.fallback

(* two elements: the slice is returned *)
C27_WitnessTwo ==
    /\ V2ListReturned /\ listIn.env.repo = "ok" /\ listIn.env.manifests = "ok"
    /\ listIn.env.tagsErr = Errors(2)
    /\ listed.err = Errors(2) /\ listed.err.elems[2] = ErrorCode(2)

(* no element: the slice is returned *)
C27_WitnessNone ==
    /\ V2ListReturned /\ listIn.env.repo = "ok" /\ listIn.env.manifests = "ok"
    /\ listIn.env.tagsErr = Errors(0)
    /\ listed.err = Errors(0) /\ listed.fallback

(* the positions of list that hold a record of tag *)
RecordsOf(list, tag) == {k \in 1..Len(list) : list[k].Tag = tag}

(* C28: the tagList a successful ListTags leads to has exactly one record  *)
(* per tag the endpoint reported and no other record; the record of a tag  *)
(* from a V1 endpoint carries the image id mapped to the tag, from a V2    *)
(* endpoint an empty image id; its Name is the canonical repository name.  *)
C28_OneRecordPerTag ==
    /\ (V1ListReturned /\ listed.err = NoListErr) =>
          LET tagsList == listIn.env.tags.tagsList
              list == listed.tagList.TagList
          IN  /\ listed.tagList.Name = listIn.repoInfo.CanonicalName
              /\ Len(list) = Cardinality(DOMAIN tagsList)
              /\ \A tag \in DOMAIN tagsList :
                    /\ Cardinality(RecordsOf(list, tag)) = 1
                    /\ \A k \in RecordsOf(list, tag) : list[k].ImageID = tagsList[tag]
              /\ \A k \in 1..Len(list) : list[k].Tag \in DOMAIN tagsList
    /\ (V2ListReturned /\ listed.err = NoListErr) =>
          LET tags == listIn.env.tags
              list == listed.tagList.TagList
          IN  /\ listed.tagList.Name = listIn.repoInfo.CanonicalName
              /\ Len(list) = Len(tags)
              /\ \A tag \in Range(tags) :
                    /\ Cardinality(RecordsOf(list, tag)) = 1
                    /\ \A k \in RecordsOf(list, tag) : list[k].ImageID = ""
              /\ \A k \in 1..Len(list) : list[k].Tag \in Range(tags)

(* a V1 map of two tags with different image ids, ranged over from the     *)
(* greater tag down; the canonical name differs from the other names       *)
C28_Witness ==
    /\ V1ListReturned /\ listed.err = NoListErr
    /\ listIn.repoInfo.CanonicalName # listIn.repoInfo.LocalName
    /\ listIn.env.tags.order = <<DefaultTag, 1>>
    /\ listIn.env.tags.tagsList[1] = "id2" /\ listIn.env.tags.tagsList[DefaultTag] = "id1"
    /\ listed.tagList =
          [Name |-> "docker.io/library/busybox",
           TagList |-> <<RepositoryTag(1, "id2"), RepositoryTag(DefaultTag, "id1")>>]

(* a V2 enumeration of as many tags as there are *)
C28_WitnessV2 ==
    /\ V2ListReturned /\ listed.err = NoListErr
    /\ Len(listIn.env.tags) = MaxTags
    /\ Len(listed.tagList.TagList) = MaxTags
    /\ listed.tagList.TagList[1] = RepositoryTag(1, "")

(* the lister reached the tags of its endpoint and got none *)
NoTagsReported ==
    \/ /\ V1ListReturned
       /\ listIn.env.tls = "ok" /\ listIn.env.v1ep = "ok" /\ listIn.env.session = "ok"
       /\ listIn.env.repoData = "ok" /\ ~listIn.env.tagsErr
       /\ listIn.env.tags.order = <<>>
    \/ /\ V2ListReturned
       /\ listIn.env.repo = "ok" /\ listIn.env.manifests = "ok"
       /\ listIn.env.tagsErr = NoListErr
       /\ listIn.env.tags = <<>>

(* C29 as stated: a lister that is reported no tag fails with "No tags     *)
(* available" whatever its protocol, and no list that is returned is empty *)
C29_ZeroTagsFailAlike ==
    /\ NoTagsReported => listed.err = ListErr("No tags available")
    /\ ((V1ListReturned \/ V2ListReturned) /\ listed.err = NoListErr) =>
          listed.tagList.TagList # <<>>

(* C29: zero tags are handled differently by the two protocols: a V1       *)
(* lister that is reported an empty tag map fails with "No tags available" *)
(* and returns no list; a V2 lister that is reported an empty enumeration  *)
(* succeeds with an empty list under the canonical name.  A list returned  *)
(* empty hence comes from a V2 endpoint.                                   *)
C29_ZeroTagsByProtocol ==
    /\ (NoTagsReported /\ V1ListReturned) =>
          /\ listed.err = ListErr("No tags available")
          /\ ~listed.fallback
          /\ listed.tagList = NilTagList
    /\ (NoTagsReported /\ V2ListReturned) =>
          /\ listed.err = NoListErr
          /\ ~listed.fallback
          /\ listed.tagList = [Name |-> listIn.repoInfo.CanonicalName, TagList |-> <<>>]
    /\ ((V1ListReturned \/ V2ListReturned) /\ listed.err = NoListErr
                                           /\ listed.tagList.TagList = <<>>) =>
          V2ListReturned

(* a V2 endpoint enumerated no tag and the list came back empty *)
C29_Witness ==
    /\ NoTagsReported /\ V2ListReturned
    /\ listed.err = NoListErr /\ listed.tagList.TagList = <<>>

(* a V1 endpoint answered an empty map *)
C29_WitnessV1 ==
    /\ NoTagsReported /\ V1ListReturned
    /\ listed.err = ListErr("No tags available")

(* the manifest the history loop of fetchWithRepository ranges over, once  *)
(* it is verified and its repeated layers are removed                      *)
LayersOfHistory == fixManifestLayers(fetchIn.env.manifest, "ok").manifest
HistoryLoopDone ==
    /\ GotManifest
    /\ verifyManifest(fetchIn.env.manifest, fetchIn.env.verify).err = NoErr
    /\ fetchIn.env.fix = "ok"
    /\ \A k \in 1..Len(LayersOfHistory.History) : LayersOfHistory.History[k].kind # "bad"

(* C30: the history list of a V2 fetch has one entry per layer of the      *)
(* verified manifest, the entry of the last layer first and that of the    *)
(* first layer last; the entry of a throwaway fragment is in the list and  *)
(* counted like any other, and an entry has EmptyLayer set exactly when    *)
(* its fragment has the throwaway marker.                                  *)
C30_HistoryPerLayer ==
    HistoryLoopDone =>
        LET m == LayersOfHistory
            n == Len(m.FSLayers)
        IN  /\ Len(fetched.history) = n
            /\ \A k \in 1..n :
                  /\ fetched.history[k].at = m.History[n + 1 - k].at
                  /\ fetched.history[k].EmptyLayer <=>
                        (m.History[n + 1 - k].kind = "throwaway")

(* two layers, the first of them a throwaway *)
C30_Witness ==
    /\ HistoryLoopDone
    /\ Len(fetchIn.env.manifest.FSLayers) = 2
    /\ fetchIn.env.manifest.History[1].kind = "throwaway"
    /\ fetchIn.env.manifest.History[2].kind = "plain"
    /\ ~fetchIn.env.manifest.History[1].repeat
    /\ fetched.history = <<[at |-> 2, EmptyLayer |-> FALSE], [at |-> 1, EmptyLayer |-> TRUE]>>
    /\ fetched.rec.made

(* a repeated layer was removed before the loop *)
C30_WitnessRepeat ==
    /\ HistoryLoopDone
    /\ Len(fetchIn.env.manifest.FSLayers) = 2
    /\ fetchIn.env.manifest.History[1].repeat
    /\ fetchIn.env.manifest.History[2].kind = "throwaway"
    /\ fetched.history = <<[at |-> 2, EmptyLayer |-> TRUE]>>

(***************************************************************************)
(* Properties of two calls at once, checked under ConcurrentSpec.          *)
(***************************************************************************)

C21_WitnessReturned ==
    /\ frames # <<>>
    /\ \A c \in Calls : frames[c].pc = "done"
    /\ frames[1].ret.err.type = "error" /\ frames[1].ret.err.pos = 1
    /\ Len(frames[1].endpoints) = 2
    /\ frames[2].ret.err = Nil /\ frames[2].ret.rec.pos = 2

====
